---- MODULE Spec2Model ----
(***************************************************************************)
(* A model of the warden-linux backend: the LinuxBackend registry          *)
(* (linux_backend.go), the LinuxContainerPool allocator                    *)
(* (container_pool.go) and the resource pools and container operations     *)
(* they call.  Backend.Start runs alone before requests are accepted;      *)
(* client requests are then served by concurrent threads.  Every pool      *)
(* operation, script run and registry access is one atomic step.           *)
(* SpecContainer and SpecProcess follow one LinuxContainer from            *)
(* NewLinuxContainer on: its state, OOM notifier, limits and net rules,    *)
(* and its processes with the streams of their receivers.                  *)
(* SpecRestore, SpecStop and SpecQuery are the Backend over a NetworkPool  *)
(* of two networks: restoring two snapshots, Stop step by step with a      *)
(* crash and the Start after it, and Containers(filter).  SpecPool is the  *)
(* three resource pools on their own, SpecIDs the container id generator.  *)
(***************************************************************************)
EXTENDS Integers, Sequences, FiniteSets, TLC

(* ------------------------------ bounds --------------------------------- *)

MaxIDs == 2
NumUIDs == 2
NumNets == 1
NumPorts == 1
MaxMounts == 1
MaxFails == 1
MaxProcs == 2
PoolPorts == 2
MaxNetIns == 1
MaxEvents == 2
MaxRecv == 2
MaxChunks == 1
MaxDraws == 4

Threads == {1, 2}
IDs == 1..MaxIDs
UIDs == 1..NumUIDs
Ports == 1..NumPorts

\* spec.Handle: 0 is the empty string (the handle defaults to the id)
CustomHandle == MaxIDs + 1
Handles == IDs \cup {CustomHandle}

NoID == 0
None == 0

\* the depot entry "tmp"
Tmp == 0

(* --------------------------- resource pools ---------------------------- *)

Min(S) == CHOOSE x \in S : \A y \in S : x <= y

\* Acquire: the next free value, or None when the pool is exhausted
PoolAcquire(free) == IF free = {} THEN None ELSE Min(free)

\* (mutation of PoolRelease: any value is put into the free set)
PoolReleaseAny(free, range, v) == free \cup {v}

\* Release: v goes back to the free set; an unknown value is a silent no-op
PoolRelease(free, range, v) == IF v \in range THEN free \cup {v} ELSE free

\* Remove: "" on success, else the error
PoolRemoveError(free, range, v) ==
  IF v \notin range THEN "NotInPool"
  ELSE IF v \notin free THEN "AlreadyAllocated"
  ELSE ""

PoolRemove(free, range, v) ==
  IF PoolRemoveError(free, range, v) = "" THEN free \ {v} ELSE free

RECURSIVE ReleaseAll(_, _, _)
ReleaseAll(free, range, ports) ==
  IF ports = <<>> THEN free
  ELSE ReleaseAll(PoolRelease(free, range, Head(ports)), range, Tail(ports))

SeqToSet(s) == {s[i] : i \in 1..Len(s)}

(* ------------------------------- state --------------------------------- *)

VARIABLES
  uidFree,      \* UIDPool: the free UIDs
  netFree,      \* NetworkPool: the free /30 networks
  portFree,     \* PortPool: the free ports
  nextID,       \* containerNum of generateContainerIDs (next id to hand out)
  objs,         \* the LinuxContainer objects in memory, by id
  containers,   \* LinuxBackend.containers: handle -> id
  depot,        \* the depot directory: ids whose create.sh ran and destroy.sh did not
  snapshots,    \* the snapshots directory: one ContainerSnapshot file per id
  tmpdir,       \* os.TempDir(): the temporary files of saveSnapshot
  boot,         \* the backend: its configuration, the position of Start and
                \* of Stop, and the depot listing Prune works on
  fails,        \* number of script failures so far (bounded by MaxFails)
  pc,           \* each request thread's position
  loc,          \* each request thread's call: arguments, locals, result
  lc,           \* one LinuxContainer seen from inside: state, events, limits, ...
  procs,        \* its process table: by process id, the process and its receivers
  last          \* its last operation: the commands it ran and what it returned

pools == <<uidFree, netFree, portFree>>

cvars == <<lc, procs, last>>

vars == <<uidFree, netFree, portFree, nextID, objs, containers, depot,
          snapshots, tmpdir, boot, fails, pc, loc, lc, procs, last>>

\* the /30 networks the NetworkPool was constructed with
Nets == 1..boot.nets

\* warden.Properties, a map from keys to values, as its set of <<key, value>>
\* pairs: the empty map
NoProperties == {}

NoObj == [handle |-> None, uid |-> None, net |-> None, ports |-> <<>>,
          netIns |-> <<>>, state |-> "none", restored |-> FALSE,
          props |-> NoProperties]

NewLinuxContainer(handle, uid, net, ports) ==
  [handle |-> handle, uid |-> uid, net |-> net, ports |-> ports,
   netIns |-> <<>>, state |-> "born", restored |-> FALSE,
   props |-> NoProperties]

NoCall == [op |-> "", handle |-> None, cid |-> NoID, uid |-> None,
           net |-> None, writes |-> 0, err |-> "", ret |-> NoID]

\* the snapshot file a previous Backend.Stop wrote for an active container
\* id whose ports all came from successful NetIn calls
SnapshotOf(id, uid, net, ports) ==
  [id |-> id, handle |-> id, uid |-> uid, net |-> net, ports |-> ports,
   netIns |-> ports, state |-> "active", props |-> NoProperties,
   decodes |-> TRUE]

\* what a previous run left on disk, and whether the pools are configured
\* as they were then: nothing; a snapshotted container (without or with a
\* port); depot entries without a snapshot; two snapshots naming the same
\* Network; a depot entry next to a snapshotted one; a snapshot naming a
\* UID and a Network, or a port, outside today's pools; a snapshot file
\* that is not a ContainerSnapshot
DiskStates ==
  { [depot |-> {}, snapshots |-> {}],
    [depot |-> {1}, snapshots |-> {SnapshotOf(1, 1, 1, <<>>)}],
    [depot |-> {1}, snapshots |-> {SnapshotOf(1, 1, 1, <<1>>)}],
    [depot |-> {1}, snapshots |-> {}],
    [depot |-> {1, 2}, snapshots |-> {}],
    [depot |-> {1, 2}, snapshots |-> {SnapshotOf(1, 1, 1, <<1>>),
                                      SnapshotOf(2, 2, 1, <<>>)}],
    [depot |-> {1, 2}, snapshots |-> {SnapshotOf(1, 1, 1, <<>>)}],
    [depot |-> {1}, snapshots |-> {SnapshotOf(1, NumUIDs + 1, NumNets + 1, <<1>>)}],
    [depot |-> {1}, snapshots |-> {SnapshotOf(1, 1, 1, <<1, NumPorts + 1>>)}],
    [depot |-> {1}, snapshots |->
       {[SnapshotOf(1, 1, 1, <<>>) EXCEPT !.decodes = FALSE]}] }

\* there was no run of the backend before this one
NoRun == [containers |-> <<>>, objs |-> <<>>, depot |-> {}, saved |-> {},
          fails |-> 0, stopped |-> FALSE]

\* Backend.Start has not begun: the position of Start, the NetworkPool's
\* size and the snapshots path the backend was constructed with, which run
\* of the backend this is and what the run before it left, and the calls
\* Stop has made on the containers
NotStarted(accept) ==
  [pc |-> "start", accept |-> accept, todo |-> <<>>, keep |-> {}, err |-> "",
   listing |-> <<>>, destroyed |-> <<>>, nets |-> NumNets,
   path |-> "snapshots", run |-> 1, log |-> <<>>, before |-> NoRun]

\* the process ids of the container's process table
PIDs == 0..MaxProcs

\* a LinuxContainer as NewLinuxContainer leaves it: born, no events, no OOM
\* notifier, no limit, no ports, processIDCounter 0. phase is the caller's
\* view: "new" until Start or Restore has returned, then "live", or "dead"
\* when that call failed and the container was dropped
NewContainerState ==
  [phase |-> "new", state |-> "born", events |-> <<>>, oom |-> "none",
   memLimit |-> None, ports |-> <<>>, netIns |-> <<>>, netOuts |-> <<>>,
   nextPID |-> 0]

NoProc ==
  [status |-> "none", emitted |-> <<>>, signalled |-> FALSE, recv |-> <<>>]

NoOp == [op |-> "", cmds |-> <<>>, ret |-> <<>>, err |-> ""]

\* the state after New(...), the pools being full, over the disk states D;
\* accept says whether requests are accepted once Start has returned
\* ("after"), already while its Prune runs ("during"), or not at all
\* ("never": the run is followed no further than the return of Start)
InitWith(D, accept) ==
  /\ boot = NotStarted(accept)
  /\ uidFree = UIDs
  /\ netFree = Nets
  /\ portFree = Ports
  /\ objs = [i \in IDs |-> NoObj]
  /\ containers = [h \in Handles |-> NoID]
  /\ \E d \in D :
       /\ depot = d.depot
       /\ snapshots = d.snapshots
       /\ tmpdir = {}
       /\ nextID = 1 + Cardinality(d.depot)
  /\ fails = 0
  /\ pc = [t \in Threads |-> "idle"]
  /\ loc = [t \in Threads |-> NoCall]
  /\ lc = NewContainerState
  /\ procs = [p \in PIDs |-> NoProc]
  /\ last = NoOp

Init == InitWith(DiskStates, "after")

\* a script (external process) may exit non-zero
ScriptOutcomes == IF fails < MaxFails THEN {TRUE, FALSE} ELSE {TRUE}

Failed(ok) == fails' = IF ok THEN fails ELSE fails + 1

Goto(t, p) == pc' = [pc EXCEPT ![t] = p]

\* the call of thread t returns err
Fail(t, err) ==
  /\ pc' = [pc EXCEPT ![t] = "done"]
  /\ loc' = [loc EXCEPT ![t].err = err]

\* requests are accepted
Serving ==
  \/ boot.pc = "serving" /\ boot.accept # "never"
  \/ boot.accept = "during" /\ boot.pc \in {"list", "prune"}

Registered(i) == \E h \in Handles : containers[h] = i

\* ids that threads inside Create will still draw
PendingDraws == Cardinality({t \in Threads : pc[t] \in {"c_net", "c_create"}})

RECURSIVE SetToSeq(_)
SetToSeq(S) == IF S = {} THEN <<>> ELSE <<Min(S)>> \o SetToSeq(S \ {Min(S)})


(* ------------------------ LinuxContainerPool.Restore ------------------- *)

\* for _, port := range resources.Ports { p.portPool.Remove(port) },
\* up to the first Remove that fails
RECURSIVE RemovePorts(_, _)
RemovePorts(free, ports) ==
  IF ports = <<>> THEN [err |-> "", free |-> free]
  ELSE IF PoolRemoveError(free, Ports, Head(ports)) # ""
       THEN [err |-> "port " \o PoolRemoveError(free, Ports, Head(ports)),
             free |-> free]
       ELSE RemovePorts(PoolRemove(free, Ports, Head(ports)), Tail(ports))

\* (mutation of RestoreNetworkFailed: the UID is not released)
RestoreNetworkFailedKeepsUID(s, err, uid1, net0, port0) ==
  [err |-> err, uid |-> uid1, net |-> net0, port |-> port0]

\* the Network Remove failed: release the UID
RestoreNetworkFailed(s, err, uid1, net0, port0) ==
  [err |-> err, uid |-> PoolRelease(uid1, UIDs, s.uid), net |-> net0,
   port |-> port0]

\* (mutation of RestorePortFailed: only the UID and the Network are released)
RestorePortFailedKeepsPorts(s, err, uid1, net1, port1) ==
  [err |-> err,
   uid |-> PoolRelease(uid1, UIDs, s.uid),
   net |-> PoolRelease(net1, Nets, s.net),
   port |-> port1]

\* a port Remove failed: release the UID, the Network and all the snapshot's ports
RestorePortFailed(s, err, uid1, net1, port1) ==
  [err |-> err,
   uid |-> PoolRelease(uid1, UIDs, s.uid),
   net |-> PoolRelease(net1, Nets, s.net),
   port |-> ReleaseAll(port1, Ports, s.ports)]

\* Restore on the pools uid0, net0, port0: the pools after the snapshot's
\* resources were taken out, or the error of the first Remove that failed
\* and the pools after the compensation
PoolRestore(s, uid0, net0, port0) ==
  LET uerr == PoolRemoveError(uid0, UIDs, s.uid)
      uid1 == PoolRemove(uid0, UIDs, s.uid)
      nerr == PoolRemoveError(net0, Nets, s.net)
      net1 == PoolRemove(net0, Nets, s.net)
      pr == RemovePorts(port0, s.ports)
  IN IF uerr # ""
     THEN [err |-> "uid " \o uerr, uid |-> uid0, net |-> net0, port |-> port0]
     ELSE IF nerr # ""
     THEN RestoreNetworkFailed(s, "network " \o nerr, uid1, net0, port0)
     ELSE IF pr.err # ""
     THEN RestorePortFailed(s, pr.err, uid1, net1, pr.free)
     ELSE [err |-> "", uid |-> uid1, net |-> net1, port |-> pr.free]

PoolRestoreResources(s) == PoolRestore(s, uidFree, netFree, portFree)

\* (mutation of PoolRestoreScriptFailed: compensates as for a failed Remove)
PoolRestoreScriptFailedReleases(s, r) ==
  [err |-> "restore failed",
   uid |-> PoolRelease(r.uid, UIDs, s.uid),
   net |-> PoolRelease(r.net, Nets, s.net),
   port |-> ReleaseAll(r.port, Ports, s.ports)]

\* err = container.Restore(containerSnapshot); if err != nil { return nil, err }:
\* the pools stay as the Removes left them
PoolRestoreScriptFailed(s, r) == [r EXCEPT !.err = "restore failed"]

\* LinuxContainer.Restore: sets the state; replays net.sh for the recorded
\* netIns, which records them again
ContainerRestore(c, s) ==
  [c EXCEPT !.state = s.state, !.netIns = s.netIns, !.restored = TRUE]

\* NewLinuxContainer(...) followed by a successful container.Restore(snapshot)
RestoredContainer(s) ==
  ContainerRestore([NewLinuxContainer(s.handle, s.uid, s.net, s.ports)
                      EXCEPT !.props = s.props], s)

(* --------------------------- LinuxBackend.Start ------------------------ *)

\* Start returns err
BootFailed(err) == boot' = [boot EXCEPT !.pc = "failed", !.err = err]

\* (mutation of KeepSet: nothing is kept)
KeepSetEmpty == {}

\* for _, container := range containers { keep[container.ID()] = true }
KeepSet == {i \in IDs : Registered(i)}

\* without a snapshots path Start goes straight to the keep-set and Prune;
\* else ioutil.ReadDir(b.snapshotsPath): the snapshot files, sorted by name
BackendStart ==
  /\ boot.pc = "start"
  /\ boot' = IF boot.path = ""
             THEN [boot EXCEPT !.pc = "list", !.keep = KeepSet]
             ELSE [boot EXCEPT !.pc = "restore",
                               !.todo = SetToSeq({s.id : s \in snapshots})]
  /\ UNCHANGED <<uidFree, netFree, portFree, nextID, objs, containers, depot,
                 snapshots, fails, pc, loc>>
  /\ UNCHANGED <<tmpdir, cvars>>

\* (mutation of BackendRestoreFailed: the snapshot is skipped and Start goes on)
BackendRestoreFailedSkips(err) ==
  /\ boot' = [boot EXCEPT !.todo = Tail(boot.todo)]
  /\ UNCHANGED <<objs, containers>>

\* _, err = b.restore(file); if err != nil { return err }
BackendRestoreFailed(err) ==
  /\ BootFailed(err)
  /\ UNCHANGED <<objs, containers>>

\* b.restore(file): ContainerPool.Restore (decode, take the resources out of
\* the pools, construct, container.Restore), then register under the handle
BackendRestore ==
  /\ boot.pc = "restore"
  /\ boot.todo # <<>>
  /\ LET s == CHOOSE x \in snapshots : x.id = Head(boot.todo)
         r == PoolRestoreResources(s)
     IN IF ~ s.decodes
        THEN /\ BackendRestoreFailed("decode failed")
             /\ UNCHANGED <<uidFree, netFree, portFree, fails>>
        ELSE IF r.err # ""
             THEN /\ uidFree' = r.uid
                  /\ netFree' = r.net
                  /\ portFree' = r.port
                  /\ BackendRestoreFailed(r.err)
                  /\ UNCHANGED fails
             ELSE \E ok \in ScriptOutcomes :
                    /\ Failed(ok)
                    /\ LET q == IF ok THEN r ELSE PoolRestoreScriptFailed(s, r)
                       IN /\ uidFree' = q.uid
                          /\ netFree' = q.net
                          /\ portFree' = q.port
                    /\ IF ok
                       THEN /\ objs' = [objs EXCEPT ![s.id] = RestoredContainer(s)]
                            /\ containers' = [containers EXCEPT ![s.handle] = s.id]
                            /\ boot' = [boot EXCEPT !.todo = Tail(boot.todo)]
                       ELSE BackendRestoreFailed("restore failed")
  /\ UNCHANGED <<nextID, depot, snapshots, pc, loc>>
  /\ UNCHANGED <<tmpdir, cvars>>

\* os.RemoveAll(snapshotsPath); os.MkdirAll(snapshotsPath); then the keep-set
\* of the registered ids, with which Prune is called
BackendResetSnapshots ==
  /\ boot.pc = "restore"
  /\ boot.todo = <<>>
  /\ snapshots' = {}
  /\ \E ok \in ScriptOutcomes :
       /\ Failed(ok)
       /\ IF ok
          THEN boot' = [boot EXCEPT !.pc = "list", !.keep = KeepSet]
          ELSE BootFailed("mkdir failed")
  /\ UNCHANGED <<uidFree, netFree, portFree, nextID, objs, containers, depot,
                 pc, loc>>
  /\ UNCHANGED <<tmpdir, cvars>>

(* ------------------------ LinuxContainerPool.Prune --------------------- *)

\* seq with x put in after its first k elements
Insert(seq, k, x) ==
  SubSeq(seq, 1, k) \o <<x>> \o SubSeq(seq, k + 1, Len(seq))

\* ls depotPath: the entries in ls's order, "tmp" among them; an ls that
\* fails makes Prune return its error
PoolPruneList ==
  /\ boot.pc = "list"
  /\ \E ok \in ScriptOutcomes :
       /\ Failed(ok)
       /\ IF ok
          THEN \E k \in 0..Cardinality(depot) :
                 boot' = [boot EXCEPT !.pc = "prune",
                            !.listing = Insert(SetToSeq(depot), k, Tmp),
                            !.todo = Insert(SetToSeq(depot), k, Tmp)]
          ELSE BootFailed("ls failed")
  /\ UNCHANGED <<uidFree, netFree, portFree, nextID, objs, containers, depot,
                 snapshots, pc, loc>>
  /\ UNCHANGED <<tmpdir, cvars>>

\* (mutation of PruneSkips: only kept ids are skipped)
PruneSkipsKeptOnly(id, keep) == id \in keep

\* if id == "tmp" { continue }; _, found := keep[id]; if found { continue }
PruneSkips(id, keep) == id = Tmp \/ id \in keep

\* (mutation of PoolPruneDestroyFailed: pruning goes on with the next entry)
PoolPruneDestroyFailedContinues(id) ==
  /\ boot' = [boot EXCEPT !.todo = Tail(boot.todo),
                          !.destroyed = Append(boot.destroyed, id)]
  /\ UNCHANGED depot

\* err = p.destroy(id); if err != nil { return err }
PoolPruneDestroyFailed(id) ==
  /\ boot' = [boot EXCEPT !.pc = "failed", !.err = "destroy.sh failed",
                          !.destroyed = Append(boot.destroyed, id)]
  /\ UNCHANGED depot

\* one entry of the listing: skip tmp and kept ids, run destroy.sh on the
\* others; boot.destroyed lists the ids destroy.sh was run on
PoolPrune ==
  /\ boot.pc = "prune"
  /\ boot.todo # <<>>
  /\ LET id == Head(boot.todo)
     IN IF PruneSkips(id, boot.keep)
        THEN /\ boot' = [boot EXCEPT !.todo = Tail(boot.todo)]
             /\ UNCHANGED <<depot, fails>>
        ELSE \E ok \in ScriptOutcomes :
               /\ Failed(ok)
               /\ IF ok
                  THEN /\ depot' = depot \ {id}
                       /\ boot' = [boot EXCEPT !.todo = Tail(boot.todo),
                                     !.destroyed = Append(boot.destroyed, id)]
                  ELSE PoolPruneDestroyFailed(id)
  /\ UNCHANGED <<uidFree, netFree, portFree, nextID, objs, containers,
                 snapshots, pc, loc>>
  /\ UNCHANGED <<tmpdir, cvars>>

\* Prune returned nil: Start returns nil
BackendStarted ==
  /\ boot.pc = "prune"
  /\ boot.todo = <<>>
  /\ boot' = [boot EXCEPT !.pc = "serving", !.todo = <<>>, !.keep = {},
                          !.err = "", !.listing = <<>>, !.destroyed = <<>>]
  /\ UNCHANGED <<uidFree, netFree, portFree, nextID, objs, containers, depot,
                 snapshots, fails, pc, loc>>
  /\ UNCHANGED <<tmpdir, cvars>>

(* ----------------------- LinuxContainerPool.Create --------------------- *)

\* uid, err := p.uidPool.Acquire(); on error return it
CreateAcquireUID(t) ==
  /\ Serving
  /\ pc[t] = "idle"
  /\ uidFree = {} \/ nextID + PendingDraws <= MaxIDs
  /\ LET uid == PoolAcquire(uidFree)
         call == [NoCall EXCEPT !.op = "Create"]
     IN IF uid = None
        THEN /\ pc' = [pc EXCEPT ![t] = "done"]
             /\ loc' = [loc EXCEPT ![t] = [call EXCEPT !.err = "uid PoolExhausted"]]
             /\ UNCHANGED uidFree
        ELSE /\ uidFree' = uidFree \ {uid}
             /\ pc' = [pc EXCEPT ![t] = "c_net"]
             /\ loc' = [loc EXCEPT ![t] = [call EXCEPT !.uid = uid]]
  /\ UNCHANGED <<netFree, portFree, nextID, objs, containers, depot,
                 snapshots, boot, fails>>
  /\ UNCHANGED <<tmpdir, cvars>>

\* (mutation of CreateNetworkFailed: the UID is not released)
CreateNetworkFailedKeepsUID(t) ==
  /\ Fail(t, "network PoolExhausted")
  /\ UNCHANGED <<uidFree, netFree>>

\* network acquisition failed: release the UID, return the error
CreateNetworkFailed(t) ==
  /\ uidFree' = PoolRelease(uidFree, UIDs, loc[t].uid)
  /\ Fail(t, "network PoolExhausted")
  /\ UNCHANGED netFree

\* network, err := p.networkPool.Acquire()
CreateAcquireNetwork(t) ==
  /\ pc[t] = "c_net"
  /\ LET net == PoolAcquire(netFree)
     IN IF net = None
        THEN CreateNetworkFailed(t)
        ELSE /\ netFree' = netFree \ {net}
             /\ Goto(t, "c_create")
             /\ loc' = [loc EXCEPT ![t].net = net]
             /\ UNCHANGED uidFree
  /\ UNCHANGED <<portFree, nextID, objs, containers, depot, snapshots, boot,
                 fails>>
  /\ UNCHANGED <<tmpdir, cvars>>

\* create.sh failed: release the UID and the Network, return the error
CreateScriptFailed(t) ==
  /\ uidFree' = PoolRelease(uidFree, UIDs, loc[t].uid)
  /\ netFree' = PoolRelease(netFree, Nets, loc[t].net)
  /\ Fail(t, "create.sh failed")
  /\ UNCHANGED depot

\* id := <-p.containerIDs; NewLinuxContainer(...); run create.sh.
\* specHandle is spec.Handle and properties is spec.Properties, read here
\* for the first time
CreateRunScriptWith(t, specHandle, properties) ==
  /\ pc[t] = "c_create"
  /\ nextID <= MaxIDs
  /\ LET id == nextID
         handle == IF specHandle = None THEN id ELSE specHandle
     IN /\ nextID' = nextID + 1
        /\ \E ok \in ScriptOutcomes :
             /\ Failed(ok)
             /\ IF ok
                THEN /\ objs' = [objs EXCEPT ![id] =
                          [NewLinuxContainer(handle, loc[t].uid, loc[t].net,
                                             <<>>)
                             EXCEPT !.props = properties]]
                     /\ depot' = depot \cup {id}
                     /\ Goto(t, "c_mounts")
                     /\ loc' = [loc EXCEPT ![t].cid = id]
                     /\ UNCHANGED <<uidFree, netFree>>
                ELSE /\ CreateScriptFailed(t)
                     /\ UNCHANGED objs
  /\ UNCHANGED <<portFree, containers, snapshots, boot>>
  /\ UNCHANGED <<tmpdir, cvars>>

\* Create with a spec that has no properties
CreateRunScript(t, specHandle) ==
  CreateRunScriptWith(t, specHandle, NoProperties)

\* (mutation of CreateBindMountsFailed: compensates as for a create.sh failure)
CreateBindMountsFailedReleases(t, written) ==
  /\ pc' = [pc EXCEPT ![t] = "done"]
  /\ loc' = [loc EXCEPT ![t].err = "hook append failed",
                        ![t].writes = written + 1]
  /\ uidFree' = PoolRelease(uidFree, UIDs, loc[t].uid)
  /\ netFree' = PoolRelease(netFree, Nets, loc[t].net)
  /\ UNCHANGED depot

\* the append number written + 1 to hook-child-before-pivot.sh failed:
\* return the error
CreateBindMountsFailed(t, written) ==
  /\ pc' = [pc EXCEPT ![t] = "done"]
  /\ loc' = [loc EXCEPT ![t].err = "hook append failed",
                        ![t].writes = written + 1]
  /\ UNCHANGED <<uidFree, netFree, depot>>

\* writeBindMounts: four appends per bind mount, stopping at the first one
\* that fails.  mounts is len(spec.BindMounts), read here for the first time
CreateWriteBindMounts(t, mounts) ==
  /\ pc[t] = "c_mounts"
  /\ \/ /\ Goto(t, "c_start")
        /\ loc' = [loc EXCEPT ![t].writes = 4 * mounts]
        /\ UNCHANGED <<uidFree, netFree, depot, fails>>
     \/ /\ fails < MaxFails
        /\ \E written \in 0..(4 * mounts - 1) :
             CreateBindMountsFailed(t, written)
        /\ fails' = fails + 1
  /\ UNCHANGED <<portFree, nextID, objs, containers, snapshots, boot>>
  /\ UNCHANGED <<tmpdir, cvars>>

(* -------------------------- LinuxBackend.Create ------------------------ *)

\* (mutation of ContainerStart: the state becomes active whatever start.sh did)
ContainerStartAlwaysActive(c, ok) == [c EXCEPT !.state = "active"]

\* LinuxContainer.Start: start.sh; on success the state becomes active, on
\* failure it stays as it is
ContainerStart(c, ok) == IF ok THEN [c EXCEPT !.state = "active"] ELSE c

\* (mutation of BackendCreateStartFailed: the container is registered
\* before the result of Start is looked at)
BackendCreateStartFailedRegisters(t) ==
  /\ Fail(t, "start.sh failed")
  /\ containers' = [containers EXCEPT ![objs[loc[t].cid].handle] = loc[t].cid]

\* container.Start() failed: return the error
BackendCreateStartFailed(t) ==
  /\ Fail(t, "start.sh failed")
  /\ UNCHANGED containers

\* err = container.Start()
BackendCreateStart(t) ==
  /\ pc[t] = "c_start"
  /\ \E ok \in ScriptOutcomes :
       /\ Failed(ok)
       /\ objs' = [objs EXCEPT ![loc[t].cid] = ContainerStart(@, ok)]
       /\ IF ok
          THEN /\ Goto(t, "c_register")
               /\ UNCHANGED <<loc, containers>>
          ELSE BackendCreateStartFailed(t)
  /\ UNCHANGED <<uidFree, netFree, portFree, nextID, depot, snapshots, boot>>
  /\ UNCHANGED <<tmpdir, cvars>>

\* b.containers[container.Handle()] = container, under the write lock
BackendCreateRegister(t) ==
  /\ pc[t] = "c_register"
  /\ containers' = [containers EXCEPT ![objs[loc[t].cid].handle] = loc[t].cid]
  /\ pc' = [pc EXCEPT ![t] = "done"]
  /\ loc' = [loc EXCEPT ![t].ret = loc[t].cid]
  /\ UNCHANGED <<uidFree, netFree, portFree, nextID, objs, depot, snapshots,
                 boot, fails>>
  /\ UNCHANGED <<tmpdir, cvars>>

(* -------------------------- LinuxBackend.Destroy ----------------------- *)

\* (mutation of BackendDestroyUnknown: the missing handle is not reported)
BackendDestroyUnknownSilent(t, handle) ==
  /\ pc' = [pc EXCEPT ![t] = "done"]
  /\ loc' = [loc EXCEPT ![t] = [NoCall EXCEPT !.op = "Destroy",
                                  !.handle = handle]]
  /\ UNCHANGED <<uidFree, netFree, portFree, containers, depot>>

\* the handle is not registered: return UnknownHandleError
BackendDestroyUnknown(t, handle) ==
  /\ pc' = [pc EXCEPT ![t] = "done"]
  /\ loc' = [loc EXCEPT ![t] = [NoCall EXCEPT !.op = "Destroy",
                                  !.handle = handle, !.err = "UnknownHandle"]]
  /\ UNCHANGED <<uidFree, netFree, portFree, containers, depot>>

\* (mutation of BackendDestroyFound: the handle is deleted before the
\* container is destroyed)
BackendDestroyFoundUnregisters(t, handle) ==
  /\ pc' = [pc EXCEPT ![t] = "d_script"]
  /\ loc' = [loc EXCEPT ![t] = [NoCall EXCEPT !.op = "Destroy",
                                  !.handle = handle, !.cid = containers[handle]]]
  /\ containers' = [containers EXCEPT ![handle] = NoID]
  /\ UNCHANGED <<uidFree, netFree, portFree, depot>>

\* the handle is registered: go on to containerPool.Destroy(container)
BackendDestroyFound(t, handle) ==
  /\ pc' = [pc EXCEPT ![t] = "d_script"]
  /\ loc' = [loc EXCEPT ![t] = [NoCall EXCEPT !.op = "Destroy",
                                  !.handle = handle, !.cid = containers[handle]]]
  /\ UNCHANGED <<uidFree, netFree, portFree, containers, depot>>

\* container, found := b.containers[handle], under the read lock
BackendDestroyLookup(t, handle) ==
  /\ Serving
  /\ pc[t] = "idle"
  /\ IF containers[handle] = NoID
     THEN BackendDestroyUnknown(t, handle)
     ELSE BackendDestroyFound(t, handle)
  /\ UNCHANGED <<nextID, objs, snapshots, boot, fails>>
  /\ UNCHANGED <<tmpdir, cvars>>

\* (mutation of BackendDestroyFailed: the handle is deleted although
\* ContainerPool.Destroy failed)
BackendDestroyFailedUnregisters(t) ==
  /\ Fail(t, "destroy.sh failed")
  /\ containers' = [containers EXCEPT ![loc[t].handle] = NoID]

\* err := b.containerPool.Destroy(container); if err != nil { return err }:
\* the registry is not touched
BackendDestroyFailed(t) ==
  /\ Fail(t, "destroy.sh failed")
  /\ UNCHANGED containers

\* (mutation of PoolDestroyScriptFailed: the resources are released although
\* destroy.sh failed)
PoolDestroyScriptFailedReleases(t) ==
  /\ BackendDestroyFailed(t)
  /\ portFree' = ReleaseAll(portFree, Ports, objs[loc[t].cid].ports)
  /\ uidFree' = PoolRelease(uidFree, UIDs, objs[loc[t].cid].uid)
  /\ netFree' = PoolRelease(netFree, Nets, objs[loc[t].cid].net)
  /\ UNCHANGED depot

\* destroy.sh failed: ContainerPool.Destroy and Backend.Destroy return the error
PoolDestroyScriptFailed(t) ==
  /\ BackendDestroyFailed(t)
  /\ UNCHANGED <<uidFree, netFree, portFree, depot>>

\* p.destroy(container.ID()): run destroy.sh on the container's depot path
PoolDestroyRunScript(t) ==
  /\ pc[t] = "d_script"
  /\ \E ok \in ScriptOutcomes :
       /\ Failed(ok)
       /\ IF ok
          THEN /\ depot' = depot \ {loc[t].cid}
               /\ Goto(t, "d_ports")
               /\ UNCHANGED <<uidFree, netFree, portFree, containers, loc>>
          ELSE PoolDestroyScriptFailed(t)
  /\ UNCHANGED <<nextID, objs, snapshots, boot>>
  /\ UNCHANGED <<tmpdir, cvars>>

\* for _, port := range resources.Ports { p.portPool.Release(port) }
PoolDestroyReleasePorts(t) ==
  /\ pc[t] = "d_ports"
  /\ portFree' = ReleaseAll(portFree, Ports, objs[loc[t].cid].ports)
  /\ Goto(t, "d_uid")
  /\ UNCHANGED <<uidFree, netFree, nextID, objs, containers, depot, snapshots,
                 boot, fails, loc>>
  /\ UNCHANGED <<tmpdir, cvars>>

\* p.uidPool.Release(resources.UID)
PoolDestroyReleaseUID(t) ==
  /\ pc[t] = "d_uid"
  /\ uidFree' = PoolRelease(uidFree, UIDs, objs[loc[t].cid].uid)
  /\ Goto(t, "d_net")
  /\ UNCHANGED <<netFree, portFree, nextID, objs, containers, depot, snapshots,
                 boot, fails, loc>>
  /\ UNCHANGED <<tmpdir, cvars>>

\* p.networkPool.Release(resources.Network)
PoolDestroyReleaseNetwork(t) ==
  /\ pc[t] = "d_net"
  /\ netFree' = PoolRelease(netFree, Nets, objs[loc[t].cid].net)
  /\ Goto(t, "d_unregister")
  /\ UNCHANGED <<uidFree, portFree, nextID, objs, containers, depot, snapshots,
                 boot, fails, loc>>
  /\ UNCHANGED <<tmpdir, cvars>>

\* delete(b.containers, container.Handle()), under the write lock
BackendDestroyUnregister(t) ==
  /\ pc[t] = "d_unregister"
  /\ containers' = [containers EXCEPT ![objs[loc[t].cid].handle] = NoID]
  /\ pc' = [pc EXCEPT ![t] = "done"]
  /\ UNCHANGED <<uidFree, netFree, portFree, nextID, objs, depot, snapshots,
                 boot, fails, loc>>
  /\ UNCHANGED <<tmpdir, cvars>>

(* -------------------------- LinuxBackend.Lookup ------------------------ *)

\* container, found := b.containers[handle]; UnknownHandleError if not found
BackendLookup(t, handle) ==
  /\ Serving
  /\ pc[t] = "idle"
  /\ pc' = [pc EXCEPT ![t] = "done"]
  /\ loc' = [loc EXCEPT ![t] =
               [NoCall EXCEPT !.op = "Lookup", !.handle = handle,
                  !.ret = containers[handle],
                  !.err = IF containers[handle] = NoID
                          THEN "UnknownHandle" ELSE ""]]
  /\ UNCHANGED <<uidFree, netFree, portFree, nextID, objs, containers, depot,
                 snapshots, boot, fails>>
  /\ UNCHANGED <<tmpdir, cvars>>

(* ------------------------ LinuxBackend.Containers ---------------------- *)

\* cval, ok := props[key]
HasKey(props, key) == \E kv \in props : kv[1] = key

ValueOf(props, key) == (CHOOSE kv \in props : kv[1] = key)[2]

\* containerHasProperties: every key of the filter is a key of the
\* container's properties and has the same value there
containerHasProperties(c, filter) ==
  \A kv \in filter :
    /\ HasKey(c.props, kv[1])
    /\ ValueOf(c.props, kv[1]) = kv[2]

\* Containers(filter): under the read lock, the containers of the registry
\* that have the properties of the filter
BackendContainers(t, filter) ==
  /\ Serving
  /\ pc[t] = "idle"
  /\ pc' = [pc EXCEPT ![t] = "done"]
  /\ loc' = [loc EXCEPT ![t] =
               [NoCall EXCEPT !.op = "Containers",
                  !.ret = {i \in IDs : /\ Registered(i)
                                       /\ containerHasProperties(objs[i], filter)}]]
  /\ UNCHANGED <<uidFree, netFree, portFree, nextID, objs, containers, depot,
                 snapshots, boot, fails>>
  /\ UNCHANGED <<tmpdir, cvars>>

(* -------------------------- LinuxContainer.NetIn ----------------------- *)

\* NetIn(0, containerPort) on the container registered under handle:
\* acquire a port, add it to the container's port list, run net.sh in and,
\* when it succeeded, record the pair for later snapshotting
ContainerNetIn(t, handle) ==
  /\ Serving
  /\ pc[t] = "idle"
  /\ containers[handle] # NoID
  /\ LET cid == containers[handle]
         port == PoolAcquire(portFree)
         call == [NoCall EXCEPT !.op = "NetIn", !.handle = handle, !.cid = cid]
     IN IF port = None
        THEN /\ loc' = [loc EXCEPT ![t] = [call EXCEPT !.err = "port PoolExhausted"]]
             /\ UNCHANGED <<portFree, objs, fails>>
        ELSE /\ portFree' = portFree \ {port}
             /\ \E ok \in ScriptOutcomes :
                  /\ Failed(ok)
                  /\ objs' = [objs EXCEPT
                               ![cid].ports = Append(@, port),
                               ![cid].netIns = IF ok THEN Append(@, port) ELSE @]
                  /\ loc' = [loc EXCEPT ![t] =
                               [call EXCEPT !.ret = port,
                                  !.err = IF ok THEN "" ELSE "net.sh failed"]]
  /\ pc' = [pc EXCEPT ![t] = "done"]
  /\ UNCHANGED <<uidFree, netFree, nextID, containers, depot, snapshots, boot>>
  /\ UNCHANGED <<tmpdir, cvars>>

(* --------------------------- LinuxBackend.Stop ------------------------- *)

\* LinuxContainer.Snapshot: the ContainerSnapshot of container id
ContainerSnapshot(id, c) ==
  [id |-> id, handle |-> c.handle, uid |-> c.uid, net |-> c.net,
   ports |-> c.ports, netIns |-> c.netIns, state |-> c.state,
   props |-> c.props, decodes |-> TRUE]

\* the server has stopped accepting and every request has returned:
\* container.Cleanup() and b.saveSnapshot(container) for every registered
\* container, one snapshot file per container id
BackendStop ==
  /\ boot.pc = "serving"
  /\ \A t \in Threads : pc[t] = "idle"
  /\ snapshots' = {ContainerSnapshot(i, objs[i]) : i \in {j \in IDs : Registered(j)}}
  /\ boot' = [boot EXCEPT !.pc = "stopped"]
  /\ UNCHANGED <<uidFree, netFree, portFree, nextID, objs, containers, depot,
                 fails, pc, loc>>
  /\ UNCHANGED <<tmpdir, cvars>>

(* ------------------------------ the client ----------------------------- *)

\* a container object stays in memory while the registry or a call other
\* than t's refers to it, or while its depot entry (and so its resources) exists
Reachable(i, t) ==
  \/ Registered(i)
  \/ i \in depot
  \/ \E u \in Threads \ {t} : loc[u].cid = i

\* the call returns to the client, which drops the result
Return(t) ==
  /\ pc[t] = "done"
  /\ pc' = [pc EXCEPT ![t] = "idle"]
  /\ loc' = [loc EXCEPT ![t] = NoCall]
  /\ objs' = [i \in IDs |-> IF Reachable(i, t) THEN objs[i] ELSE NoObj]
  /\ UNCHANGED <<uidFree, netFree, portFree, nextID, containers, depot,
                 snapshots, boot, fails>>
  /\ UNCHANGED <<tmpdir, cvars>>

Next ==
  \/ BackendStart
  \/ BackendRestore
  \/ BackendResetSnapshots
  \/ PoolPruneList
  \/ PoolPrune
  \/ BackendStarted
  \/ \E t \in Threads : CreateAcquireUID(t)
  \/ \E t \in Threads : CreateAcquireNetwork(t)
  \/ \E t \in Threads, h \in {None, CustomHandle} : CreateRunScript(t, h)
  \/ \E t \in Threads, m \in 0..MaxMounts : CreateWriteBindMounts(t, m)
  \/ \E t \in Threads : BackendCreateStart(t)
  \/ \E t \in Threads : BackendCreateRegister(t)
  \/ \E t \in Threads, h \in Handles : BackendDestroyLookup(t, h)
  \/ \E t \in Threads : PoolDestroyRunScript(t)
  \/ \E t \in Threads : PoolDestroyReleasePorts(t)
  \/ \E t \in Threads : PoolDestroyReleaseUID(t)
  \/ \E t \in Threads : PoolDestroyReleaseNetwork(t)
  \/ \E t \in Threads : BackendDestroyUnregister(t)
  \/ \E t \in Threads, h \in Handles : BackendLookup(t, h)
  \/ \E t \in Threads, h \in Handles : ContainerNetIn(t, h)
  \/ BackendStop
  \/ \E t \in Threads : Return(t)

Spec == Init /\ [][Next]_vars

\* the disk states with which requests are also served while Prune runs:
\* depot entries of a previous run that leave one id to hand out, without a
\* snapshot or with the snapshot of the first
EarlyDiskStates ==
  { [depot |-> 1..(MaxIDs - 1), snapshots |-> {}],
    [depot |-> 1..(MaxIDs - 1), snapshots |-> {SnapshotOf(1, 1, 1, <<>>)}] }

\* LinuxBackend itself does not keep Create out while Start's Prune runs
InitEarly == InitWith(EarlyDiskStates, "during")

SpecEarly == InitEarly /\ [][Next]_vars

\* what a previous run left on disk: one container and a depot entry that
\* is not snapshotted; or two containers, one of them with a port; both
\* naming the same port (two overlapping Destroy calls
\* release a port twice, after which two containers can draw it); the
\* second naming a port, a Network or a UID that the first names or that
\* today's pools do not have
RestoreDiskStates ==
  { [depot |-> {1}, snapshots |-> {SnapshotOf(1, 1, 1, <<1>>)}],
    [depot |-> {1, 2}, snapshots |-> {SnapshotOf(1, 1, 1, <<>>)}],
    [depot |-> {1, 2}, snapshots |-> {SnapshotOf(1, 1, 1, <<>>),
                                      SnapshotOf(2, 2, 2, <<1>>)}],
    [depot |-> {1, 2}, snapshots |-> {SnapshotOf(1, 1, 1, <<1>>),
                                      SnapshotOf(2, 2, 2, <<1>>)}],
    [depot |-> {1, 2}, snapshots |-> {SnapshotOf(1, 1, 1, <<1>>),
                                      SnapshotOf(2, 2, 2, <<NumPorts + 1>>)}],
    [depot |-> {1, 2}, snapshots |-> {SnapshotOf(1, 1, 1, <<1>>),
                                      SnapshotOf(2, 2, 1, <<>>)}],
    [depot |-> {1, 2}, snapshots |-> {SnapshotOf(1, 1, 1, <<1>>),
                                      SnapshotOf(2, 1, 2, <<>>)}] }

\* the state after New(...) over a NetworkPool with a /30 network for
\* each of the two containers
InitRestore ==
  /\ boot = [NotStarted("after") EXCEPT !.nets = NumNets + 1]
  /\ uidFree = UIDs
  /\ netFree = Nets
  /\ portFree = Ports
  /\ objs = [i \in IDs |-> NoObj]
  /\ containers = [h \in Handles |-> NoID]
  /\ \E d \in RestoreDiskStates :
       /\ depot = d.depot
       /\ snapshots = d.snapshots
       /\ tmpdir = {}
       /\ nextID = 1 + Cardinality(d.depot)
  /\ fails = 0
  /\ pc = [t \in Threads |-> "idle"]
  /\ loc = [t \in Threads |-> NoCall]
  /\ lc = NewContainerState
  /\ procs = [p \in PIDs |-> NoProc]
  /\ last = NoOp

SpecRestore == InitRestore /\ [][Next]_vars

(* ------------------ LinuxBackend.Stop, step by step -------------------- *)

\* the orders in which range b.containers may visit the ids in S
RECURSIVE Orders(_)
Orders(S) ==
  IF S = {} THEN {<<>>}
  ELSE UNION {{<<i>> \o o : o \in Orders(S \ {i})} : i \in S}

\* the file that ioutil.TempFile has created for container id: nothing of
\* the snapshot is in it yet
TempFileOf(id) == [ContainerSnapshot(id, objs[id]) EXCEPT !.decodes = FALSE]

\* the loop of Stop goes on to the next container, or Stop returns
StopNext ==
  boot' = [boot EXCEPT !.todo = Tail(boot.todo),
                       !.pc = IF Tail(boot.todo) = <<>> THEN "stopped"
                              ELSE "stop_cleanup"]

\* (mutation of SaveSnapshotFailed: Stop returns at the first failed snapshot)
SaveSnapshotFailedReturns ==
  boot' = [boot EXCEPT !.todo = <<>>, !.pc = "stopped"]

\* saveSnapshot returned FailedToSnapshotError, which Stop drops
SaveSnapshotFailed == StopNext

\* Stop takes the read lock (the server has stopped accepting and every
\* request has returned) and starts to range over b.containers
BackendStopBegin ==
  /\ Serving
  /\ boot.pc = "serving"
  /\ \A t \in Threads : pc[t] = "idle"
  /\ \E order \in Orders(KeepSet) :
       boot' = [boot EXCEPT !.todo = order, !.log = <<>>,
                            !.pc = IF order = <<>> THEN "stopped"
                                   ELSE "stop_cleanup"]
  /\ UNCHANGED <<uidFree, netFree, portFree, nextID, objs, containers, depot,
                 snapshots, fails, pc, loc>>
  /\ UNCHANGED <<tmpdir, cvars>>

\* container.Cleanup()
BackendStopCleanup ==
  /\ boot.pc = "stop_cleanup"
  /\ boot' = [boot EXCEPT !.pc = "stop_save",
                          !.log = Append(@, <<"Cleanup", Head(boot.todo)>>)]
  /\ UNCHANGED <<uidFree, netFree, portFree, nextID, objs, containers, depot,
                 snapshots, fails, pc, loc>>
  /\ UNCHANGED <<tmpdir, cvars>>

\* b.saveSnapshot(container): nothing to do without a snapshots path; else
\* ioutil.TempFile(os.TempDir(), "snapshot-" + id)
SaveSnapshotTempFile ==
  /\ boot.pc = "stop_save"
  /\ LET id == Head(boot.todo)
         called == [boot EXCEPT !.log = Append(@, <<"saveSnapshot", id>>)]
     IN IF boot.path = ""
        THEN /\ boot' = [called EXCEPT !.todo = Tail(boot.todo),
                            !.pc = IF Tail(boot.todo) = <<>> THEN "stopped"
                                   ELSE "stop_cleanup"]
             /\ UNCHANGED <<tmpdir, fails>>
        ELSE \E ok \in ScriptOutcomes :
               /\ Failed(ok)
               /\ IF ok
                  THEN /\ tmpdir' = tmpdir \cup {TempFileOf(id)}
                       /\ boot' = [called EXCEPT !.pc = "stop_write"]
                  ELSE /\ boot' = [called EXCEPT !.todo = Tail(boot.todo),
                                      !.pc = IF Tail(boot.todo) = <<>>
                                             THEN "stopped" ELSE "stop_cleanup"]
                       /\ UNCHANGED tmpdir
  /\ UNCHANGED <<uidFree, netFree, portFree, nextID, objs, containers, depot,
                 snapshots, pc, loc>>
  /\ UNCHANGED cvars

\* (mutation of SnapshotWriteFailed: the file is renamed into the snapshots
\* directory although Snapshot failed)
SnapshotWriteFailedRenames(id) ==
  /\ SaveSnapshotFailed
  /\ tmpdir' = tmpdir \ {TempFileOf(id)}
  /\ snapshots' = {s \in snapshots : s.id # id} \cup {TempFileOf(id)}

\* container.Snapshot(tmpfile) failed: the file is left as far as it was
\* written and saveSnapshot returns the error
SnapshotWriteFailed(id) ==
  /\ SaveSnapshotFailed
  /\ UNCHANGED <<tmpdir, snapshots>>

\* err = container.Snapshot(tmpfile)
SaveSnapshotWrite ==
  /\ boot.pc = "stop_write"
  /\ LET id == Head(boot.todo)
     IN \E ok \in ScriptOutcomes :
          /\ Failed(ok)
          /\ IF ok
             THEN /\ tmpdir' = (tmpdir \ {TempFileOf(id)})
                                 \cup {ContainerSnapshot(id, objs[id])}
                  /\ boot' = [boot EXCEPT !.pc = "stop_rename"]
                  /\ UNCHANGED snapshots
             ELSE SnapshotWriteFailed(id)
  /\ UNCHANGED <<uidFree, netFree, portFree, nextID, objs, containers, depot,
                 pc, loc>>
  /\ UNCHANGED cvars

\* os.Rename(tmpfile.Name(), path.Join(b.snapshotsPath, container.ID()))
SaveSnapshotRename ==
  /\ boot.pc = "stop_rename"
  /\ LET id == Head(boot.todo)
         file == ContainerSnapshot(id, objs[id])
     IN \E ok \in ScriptOutcomes :
          /\ Failed(ok)
          /\ IF ok
             THEN /\ tmpdir' = tmpdir \ {file}
                  /\ snapshots' = {s \in snapshots : s.id # id} \cup {file}
                  /\ StopNext
             ELSE /\ SaveSnapshotFailed
                  /\ UNCHANGED <<tmpdir, snapshots>>
  /\ UNCHANGED <<uidFree, netFree, portFree, nextID, objs, containers, depot,
                 pc, loc>>
  /\ UNCHANGED cvars

\* the process is killed while Stop runs
ProcessCrash ==
  /\ boot.pc \in {"stop_cleanup", "stop_save", "stop_write", "stop_rename"}
  /\ boot' = [boot EXCEPT !.pc = "crashed"]
  /\ UNCHANGED <<uidFree, netFree, portFree, nextID, objs, containers, depot,
                 snapshots, fails, pc, loc>>
  /\ UNCHANGED <<tmpdir, cvars>>

\* the run that has ended: its registry, containers and depot, the ids with
\* a file in the snapshots directory, the failures so far, and whether Stop
\* returned
EndedRun ==
  [containers |-> containers, objs |-> objs, depot |-> depot,
   saved |-> {s.id : s \in snapshots}, fails |-> fails,
   stopped |-> boot.pc = "stopped"]

\* the process is started again: a fresh LinuxBackend over fresh pools and
\* the same depot, snapshots path and temporary directory; the id generator
\* starts at a later time.  This second run is followed until its Start
\* has returned
BackendRestart ==
  /\ boot.pc \in {"stopped", "crashed"}
  /\ boot.run = 1
  /\ boot' = [NotStarted("never") EXCEPT !.nets = boot.nets,
                 !.path = boot.path, !.run = 2, !.before = EndedRun]
  /\ uidFree' = UIDs
  /\ netFree' = Nets
  /\ portFree' = Ports
  /\ objs' = [i \in IDs |-> NoObj]
  /\ containers' = [h \in Handles |-> NoID]
  /\ UNCHANGED <<nextID, depot, snapshots, fails, pc, loc>>
  /\ UNCHANGED <<tmpdir, cvars>>

\* what the run before left on disk: nothing, or the snapshots of one or
\* of two containers
StopDiskStates ==
  { [depot |-> {}, snapshots |-> {}],
    [depot |-> {1}, snapshots |-> {SnapshotOf(1, 1, 1, <<1>>)}],
    [depot |-> {1, 2}, snapshots |-> {SnapshotOf(1, 1, 1, <<1>>),
                                      SnapshotOf(2, 2, 2, <<>>)}] }

\* the state after New(...) with or without a snapshots path, over a
\* NetworkPool with a /30 network for each of two containers
InitStop ==
  /\ \E p \in {"", "snapshots"} :
       boot = [NotStarted("after") EXCEPT !.nets = NumNets + 1, !.path = p]
  /\ uidFree = UIDs
  /\ netFree = Nets
  /\ portFree = Ports
  /\ objs = [i \in IDs |-> NoObj]
  /\ containers = [h \in Handles |-> NoID]
  /\ \E d \in StopDiskStates :
       /\ depot = d.depot
       /\ snapshots = d.snapshots
       /\ nextID = 1 + Cardinality(d.depot)
  /\ tmpdir = {}
  /\ fails = 0
  /\ pc = [t \in Threads |-> "idle"]
  /\ loc = [t \in Threads |-> NoCall]
  /\ lc = NewContainerState
  /\ procs = [p \in PIDs |-> NoProc]
  /\ last = NoOp

\* the backend from New to Stop, a crash in Stop, and the Start after it
NextStop ==
  \/ BackendStart
  \/ BackendRestore
  \/ BackendResetSnapshots
  \/ PoolPruneList
  \/ PoolPrune
  \/ BackendStarted
  \/ \E t \in Threads : CreateAcquireUID(t)
  \/ \E t \in Threads : CreateAcquireNetwork(t)
  \/ \E t \in Threads, h \in {None, CustomHandle} : CreateRunScript(t, h)
  \/ \E t \in Threads, m \in 0..MaxMounts : CreateWriteBindMounts(t, m)
  \/ \E t \in Threads : BackendCreateStart(t)
  \/ \E t \in Threads : BackendCreateRegister(t)
  \/ \E t \in Threads, h \in Handles : BackendDestroyLookup(t, h)
  \/ \E t \in Threads : PoolDestroyRunScript(t)
  \/ \E t \in Threads : PoolDestroyReleasePorts(t)
  \/ \E t \in Threads : PoolDestroyReleaseUID(t)
  \/ \E t \in Threads : PoolDestroyReleaseNetwork(t)
  \/ \E t \in Threads : BackendDestroyUnregister(t)
  \/ \E t \in Threads, h \in Handles : BackendLookup(t, h)
  \/ \E t \in Threads, h \in Handles : ContainerNetIn(t, h)
  \/ \E t \in Threads : Return(t)
  \/ BackendStopBegin
  \/ BackendStopCleanup
  \/ SaveSnapshotTempFile
  \/ SaveSnapshotWrite
  \/ SaveSnapshotRename
  \/ ProcessCrash
  \/ BackendRestart

SpecStop == InitStop /\ [][NextStop]_vars

(* ------------------- containers with properties ------------------------ *)

\* the spec.Properties of the Creates
SpecProperties ==
  { {<<"owner", "alice">>},
    {<<"owner", "alice">>, <<"tier", "web">>} }

\* the filters of the Containers calls: none; one key; two keys; a key
\* with a value no container has; a key no container has
Filters ==
  { NoProperties,
    {<<"owner", "alice">>},
    {<<"owner", "alice">>, <<"tier", "web">>},
    {<<"owner", "bob">>, <<"tier", "web">>},
    {<<"zone", "eu">>} }

\* what the run before left on disk: nothing, or the snapshot of a
\* container of another owner
QueryDiskStates ==
  { [depot |-> {}, snapshots |-> {}],
    [depot |-> {1}, snapshots |->
       {[SnapshotOf(1, 1, 1, <<>>) EXCEPT !.props = {<<"owner", "bob">>}]}] }

\* the state after New(...) over a NetworkPool with a /30 network for each
\* of two containers
InitQuery ==
  /\ boot = [NotStarted("after") EXCEPT !.nets = NumNets + 1]
  /\ uidFree = UIDs
  /\ netFree = Nets
  /\ portFree = Ports
  /\ objs = [i \in IDs |-> NoObj]
  /\ containers = [h \in Handles |-> NoID]
  /\ \E d \in QueryDiskStates :
       /\ depot = d.depot
       /\ snapshots = d.snapshots
       /\ nextID = 1 + Cardinality(d.depot)
  /\ tmpdir = {}
  /\ fails = 0
  /\ pc = [t \in Threads |-> "idle"]
  /\ loc = [t \in Threads |-> NoCall]
  /\ lc = NewContainerState
  /\ procs = [p \in PIDs |-> NoProc]
  /\ last = NoOp

\* Start, and then Create, Destroy and Containers calls
NextQuery ==
  \/ BackendStart
  \/ BackendRestore
  \/ BackendResetSnapshots
  \/ PoolPruneList
  \/ PoolPrune
  \/ BackendStarted
  \/ \E t \in Threads : CreateAcquireUID(t)
  \/ \E t \in Threads : CreateAcquireNetwork(t)
  \/ \E t \in Threads, props \in SpecProperties :
       CreateRunScriptWith(t, None, props)
  \/ \E t \in Threads : CreateWriteBindMounts(t, 0)
  \/ \E t \in Threads : BackendCreateStart(t)
  \/ \E t \in Threads : BackendCreateRegister(t)
  \/ \E t \in Threads, h \in Handles : BackendDestroyLookup(t, h)
  \/ \E t \in Threads : PoolDestroyRunScript(t)
  \/ \E t \in Threads : PoolDestroyReleasePorts(t)
  \/ \E t \in Threads : PoolDestroyReleaseUID(t)
  \/ \E t \in Threads : PoolDestroyReleaseNetwork(t)
  \/ \E t \in Threads : BackendDestroyUnregister(t)
  \/ \E t \in Threads, filter \in Filters : BackendContainers(t, filter)
  \/ \E t \in Threads : Return(t)

SpecQuery == InitQuery /\ [][NextQuery]_vars

(* --------------------------- one LinuxContainer ------------------------ *)

\* the ports of the PortPool the container draws from, and two ports that a
\* caller names itself
PoolRange == 1..PoolPorts

HostPort == PoolPorts + 1

ContainerPort == PoolPorts + 2

\* a command handed to the command runner, or a value written to a cgroup file
Cmd(path, arg, a, b) == [path |-> path, arg |-> arg, a |-> a, b |-> b]

Returned(op, cmds, ret, err) ==
  last' = [op |-> op, cmds |-> cmds, ret |-> ret, err |-> err]

\* what a container operation never touches
bvars ==
  <<uidFree, netFree, nextID, objs, containers, depot, snapshots, tmpdir, boot,
    pc, loc>>

\* the index of the step that fails, 0 for none
FailAt(n) == IF fails < MaxFails THEN 0..n ELSE {0}

FailedAt(k) == fails' = IF k = 0 THEN fails ELSE fails + 1

\* steps run in order; a failing step that is fatal ends the run with its error
Ran(steps, k) ==
  IF k > 0 /\ steps[k].fatal THEN SubSeq(steps, 1, k) ELSE steps

StepError(steps, k) ==
  IF k > 0 /\ steps[k].fatal THEN steps[k].cmd.path \o " failed" ELSE ""

CmdsOf(steps) == [i \in 1..Len(steps) |-> steps[i].cmd]

Step1(cmd, fatal) == [cmd |-> cmd, fatal |-> fatal]

\* stopOomNotifier: a running notifier is signalled and is gone
StopOomNotifier(c) == [c EXCEPT !.oom = IF @ = "running" THEN "none" ELSE @]

\* (mutation of ContainerStop: the state becomes stopped whatever stop.sh did)
ContainerStopAlwaysStopped(c, ok) == StopOomNotifier([c EXCEPT !.state = "stopped"])

\* LinuxContainer.Stop after stop.sh returned: on success the OOM notifier is
\* stopped and the state becomes stopped; on failure nothing changes
ContainerStop(c, ok) ==
  IF ok THEN StopOomNotifier([c EXCEPT !.state = "stopped"]) ELSE c

StopCmd(kill) == Cmd("stop.sh", IF kill THEN "-w 0" ELSE "", 0, 0)

\* (mutation of LinuxContainerStart: Start is also called on a container that
\* is in use)
LinuxContainerStartAnytime ==
  /\ lc.phase \in {"new", "live"}
  /\ \E ok \in ScriptOutcomes :
       /\ Failed(ok)
       /\ lc' = [ContainerStart(lc, ok) EXCEPT
                   !.phase = IF ok THEN "live" ELSE "dead"]
       /\ Returned("Start", <<Cmd("start.sh", "", 0, 0)>>, <<>>,
                   IF ok THEN "" ELSE "start.sh failed")
  /\ UNCHANGED <<bvars, portFree, procs>>

\* Backend.Create's container.Start() on the container it has just built
LinuxContainerStart ==
  /\ lc.phase = "new"
  /\ \E ok \in ScriptOutcomes :
       /\ Failed(ok)
       /\ lc' = [ContainerStart(lc, ok) EXCEPT
                   !.phase = IF ok THEN "live" ELSE "dead"]
       /\ Returned("Start", <<Cmd("start.sh", "", 0, 0)>>, <<>>,
                   IF ok THEN "" ELSE "start.sh failed")
  /\ UNCHANGED <<bvars, portFree, procs>>

\* LinuxContainer.Stop(kill)
LinuxContainerStop(kill) ==
  /\ lc.phase = "live"
  /\ \E ok \in ScriptOutcomes :
       /\ Failed(ok)
       /\ lc' = ContainerStop(lc, ok)
       /\ Returned("Stop", <<StopCmd(kill)>>, <<>>,
                   IF ok THEN "" ELSE "stop.sh failed")
  /\ UNCHANGED <<bvars, portFree, procs>>

\* (mutation of MemoryNotifierStep: a notifier is started on every call)
MemoryNotifierStepAlways(c) == <<Step1(Cmd("bin/oom", "", 0, 0), TRUE)>>

\* startOomNotifier: nothing to run when the container has a notifier
MemoryNotifierStep(c) ==
  IF c.oom = "none" THEN <<Step1(Cmd("bin/oom", "", 0, 0), TRUE)>> ELSE <<>>

\* (mutation of MemoryWrites: the first write of the limit is fatal too)
MemoryWritesFirstFatal(limit) ==
  << Step1(Cmd("memory.limit_in_bytes", "", limit, 0), TRUE),
     Step1(Cmd("memory.memsw.limit_in_bytes", "", limit, 0), FALSE),
     Step1(Cmd("memory.limit_in_bytes", "", limit, 0), TRUE) >>

\* the cgroup writes of LimitMemory: only the error of the last is looked at
MemoryWrites(limit) ==
  << Step1(Cmd("memory.limit_in_bytes", "", limit, 0), FALSE),
     Step1(Cmd("memory.memsw.limit_in_bytes", "", limit, 0), FALSE),
     Step1(Cmd("memory.limit_in_bytes", "", limit, 0), TRUE) >>

MemorySteps(c, limit) == MemoryNotifierStep(c) \o MemoryWrites(limit)

\* the container after LimitMemory(limit) whose k-th step failed: the notifier
\* runs once its start succeeded, the limit is kept once the call succeeded
ContainerLimitMemory(c, limit, k) ==
  LET steps == MemorySteps(c, limit)
      ran == CmdsOf(Ran(steps, k))
      started == /\ Len(ran) > 0
                 /\ ran[1].path = "bin/oom"
                 /\ k # 1
  IN  [c EXCEPT !.oom = IF started THEN "running" ELSE @,
                !.memLimit = IF StepError(steps, k) = "" THEN limit ELSE @]

\* LinuxContainer.LimitMemory(limits)
LinuxContainerLimitMemory(limit) ==
  /\ lc.phase = "live"
  /\ LET steps == MemorySteps(lc, limit) IN
     \E k \in FailAt(Len(steps)) :
       /\ FailedAt(k)
       /\ lc' = ContainerLimitMemory(lc, limit, k)
       /\ Returned("LimitMemory", CmdsOf(Ran(steps, k)), <<>>,
                   StepError(steps, k))
  /\ UNCHANGED <<bvars, portFree, procs>>

\* the OOM notifier exits 0: the kernel reported the container out of memory
LinuxContainerOomExit ==
  /\ lc.phase = "live"
  /\ lc.oom = "running"
  /\ Len(lc.events) < MaxEvents
  /\ lc' = [lc EXCEPT !.oom = "exited"]
  /\ UNCHANGED <<bvars, portFree, fails, procs, last>>

\* the goroutine waiting for the notifier: registers the event, then Stop(false)
LinuxContainerOomHandle ==
  /\ lc.oom = "exited"
  /\ \E ok \in ScriptOutcomes :
       /\ Failed(ok)
       /\ lc' = ContainerStop(
                  [lc EXCEPT !.events = Append(@, "out of memory"),
                             !.oom = "none"], ok)
       /\ Returned("oom", <<StopCmd(FALSE)>>, <<>>,
                   IF ok THEN "" ELSE "stop.sh failed")
  /\ UNCHANGED <<bvars, portFree, procs>>

\* (mutation of NetInContainerPort: the container port is passed on as given)
NetInContainerPortAsGiven(host, containerPort) == containerPort

\* NetIn's container port: the host port when none was asked for
NetInContainerPort(host, containerPort) ==
  IF containerPort = 0 THEN host ELSE containerPort

\* NetIn without a host port when PortPool.Acquire fails
NetInAcquireFailed(containerPort) ==
  /\ Returned("NetIn", <<>>, <<>>, "PoolExhausted")
  /\ UNCHANGED <<lc, portFree, fails>>

\* LinuxContainer.NetIn(hostPort, containerPort)
LinuxContainerNetIn(hostPort, containerPort) ==
  /\ lc.phase = "live"
  /\ hostPort # 0 => Len(lc.netIns) < MaxNetIns
  /\ IF hostPort = 0 /\ portFree = {}
     THEN NetInAcquireFailed(containerPort)
     ELSE LET host == IF hostPort = 0 THEN PoolAcquire(portFree) ELSE hostPort
              cont == NetInContainerPort(host, containerPort)
              acquired == [lc EXCEPT !.ports = IF hostPort = 0
                                               THEN Append(@, host) ELSE @]
          IN  /\ portFree' = portFree \ {host}
              /\ \E ok \in ScriptOutcomes :
                   /\ Failed(ok)
                   /\ lc' = IF ok
                            THEN [acquired EXCEPT
                                    !.netIns = Append(@, <<host, cont>>)]
                            ELSE acquired
                   /\ Returned("NetIn", <<Cmd("net.sh", "in", host, cont)>>,
                               IF ok THEN <<host, cont>> ELSE <<>>,
                               IF ok THEN "" ELSE "net.sh failed")
  /\ UNCHANGED <<bvars, procs>>

Max(S) == CHOOSE x \in S : \A y \in S : y <= x

\* (mutation of NextProcessID: the counter restarts at the number of processes)
NextProcessIDCount(processes) == Cardinality(processes)

\* the processIDCounter after Restore: past the highest restored id
NextProcessID(processes) == IF processes = {} THEN 0 ELSE Max(processes) + 1

\* the snapshots handed to LinuxContainer.Restore: one with net rules, one of
\* an active container with a process, an event and a memory limit, one stopped
ContainerSnapshots ==
  { [state |-> "active", events |-> <<>>, processes |-> {},
     netIns |-> << <<HostPort, ContainerPort>>, <<ContainerPort, HostPort>> >>,
     netOuts |-> << <<1, HostPort>>, <<2, 0>> >>, memLimit |-> None],
    [state |-> "active", events |-> <<"out of memory">>, processes |-> {1},
     netIns |-> <<>>, netOuts |-> << <<1, 0>> >>, memLimit |-> 1],
    [state |-> "stopped", events |-> <<>>, processes |-> {},
     netIns |-> << <<HostPort, HostPort>> >>, netOuts |-> <<>>,
     memLimit |-> None] }

NetInSteps(s) ==
  [i \in 1..Len(s.netIns) |->
     Step1(Cmd("net.sh", "in", s.netIns[i][1], s.netIns[i][2]), TRUE)]

NetOutSteps(s) ==
  [i \in 1..Len(s.netOuts) |->
     Step1(Cmd("net.sh", "out", s.netOuts[i][1], s.netOuts[i][2]), TRUE)]

\* (mutation of RestoreSteps: the net-out rules are replayed before the net-in
\* rules)
RestoreStepsOutFirst(s) ==
  <<Step1(Cmd("net.sh", "setup", 0, 0), TRUE)>> \o NetOutSteps(s)
    \o NetInSteps(s)
    \o (IF s.memLimit = None THEN <<>>
        ELSE MemorySteps(NewContainerState, s.memLimit))

\* what Restore replays: net.sh setup, every net-in, every net-out, then the
\* memory limit when the snapshot has one
RestoreSteps(s) ==
  <<Step1(Cmd("net.sh", "setup", 0, 0), TRUE)>> \o NetInSteps(s)
    \o NetOutSteps(s)
    \o (IF s.memLimit = None THEN <<>>
        ELSE MemorySteps(NewContainerState, s.memLimit))

\* the rules of the given kind among the commands that succeeded
Replayed(cmds, arg, err) ==
  LET done == IF err = "" THEN cmds ELSE SubSeq(cmds, 1, Len(cmds) - 1)
      rules == SelectSeq(done, LAMBDA x : x.path = "net.sh" /\ x.arg = arg)
  IN  [i \in 1..Len(rules) |-> <<rules[i].a, rules[i].b>>]

\* the container after Restore(s) whose k-th step failed: state, events and
\* the process counter are set first, and what was replayed stays
LinuxContainerRestored(c, s, k) ==
  LET steps == RestoreSteps(s)
      ran == CmdsOf(Ran(steps, k))
      err == StepError(steps, k)
      oomAt == Len(steps) - 3
      limited == s.memLimit # None /\ Len(ran) > oomAt
  IN  [c EXCEPT !.phase = IF err = "" THEN "live" ELSE "dead",
                !.state = s.state,
                !.events = s.events,
                !.nextPID = NextProcessID(s.processes),
                !.netIns = Replayed(ran, "in", err),
                !.netOuts = Replayed(ran, "out", err),
                !.oom = IF limited /\ k # oomAt THEN "running" ELSE @,
                !.memLimit = IF limited /\ err = "" THEN s.memLimit ELSE @]

\* Backend.Start's container.Restore(snapshot) on the container it has just
\* built
LinuxContainerRestore(s) ==
  /\ lc.phase = "new"
  /\ LET steps == RestoreSteps(s) IN
     \E k \in FailAt(Len(steps)) :
       /\ FailedAt(k)
       /\ lc' = LinuxContainerRestored(lc, s, k)
       /\ procs' = [p \in PIDs |->
                      IF p \in s.processes
                      THEN [NoProc EXCEPT !.status = "running"] ELSE NoProc]
       /\ Returned("Restore", CmdsOf(Ran(steps, k)), <<>>, StepError(steps, k))
  /\ UNCHANGED <<bvars, portFree>>

\* a chunk of a process stream: data of stdout or stderr, or the exit status
DataChunk(source) == [source |-> source, data |-> "data", exit |-> <<>>]

ExitChunk(status) == [source |-> "", data |-> "", exit |-> <<status>>]

\* a receiver, with the number of chunks that had gone out when it joined
NewReceiver(joined) == [got |-> <<>>, closed |-> FALSE, joined |-> joined]

\* a chunk goes to every receiver of the fan-out set
FanOut(recv, chunk) ==
  [i \in 1..Len(recv) |-> [recv[i] EXCEPT !.got = Append(@, chunk)]]

CloseAll(recv) == [i \in 1..Len(recv) |-> [recv[i] EXCEPT !.closed = TRUE]]

Known == {p \in PIDs : procs[p].status # "none"}

\* LinuxContainer.Run, under the container's lock: the next process id is
\* taken and the process is entered in the table
LinuxContainerRun ==
  /\ lc.phase = "live"
  /\ lc.nextPID \in PIDs
  /\ Cardinality(Known) < MaxProcs
  /\ procs' = [procs EXCEPT ![lc.nextPID] = [NoProc EXCEPT !.status = "spawning"]]
  /\ lc' = [lc EXCEPT !.nextPID = @ + 1]
  /\ UNCHANGED <<bvars, portFree, fails, last>>

\* Run returns: iomux-spawn reported the process active (the id and a stream
\* are returned) or failed (the error is returned)
LinuxContainerRunSpawned(p) ==
  /\ procs[p].status = "spawning"
  /\ \E ok \in ScriptOutcomes :
       /\ Failed(ok)
       /\ procs' = [procs EXCEPT ![p] =
                      IF ok THEN [@ EXCEPT !.status = "running",
                                           !.recv = <<NewReceiver(0)>>]
                      ELSE NoProc]
       /\ Returned("Run", <<Cmd("iomux-spawn", "", p, 0)>>,
                   IF ok THEN <<p, 1>> ELSE <<>>,
                   IF ok THEN "" ELSE "iomux-spawn failed")
  /\ UNCHANGED <<bvars, portFree, lc>>

\* (mutation of AttachError: a process that has ended is reported as unknown)
AttachErrorUnknownOnly(status) ==
  IF status = "running" THEN "" ELSE "UnknownProcess"

\* what Attach answers for a process of the given status
AttachError(status) ==
  CASE status = "running" -> ""
    [] status = "ended" -> "ProcessEnded"
    [] OTHER -> "UnknownProcess"

\* LinuxContainer.Attach(processID): a receiver joins the fan-out set of a
\* running process
LinuxContainerAttach(p) ==
  /\ lc.phase = "live"
  /\ procs[p].status # "spawning"
  /\ procs[p].status = "running" => Len(procs[p].recv) < MaxRecv
  /\ LET err == AttachError(procs[p].status) IN
       /\ procs' = IF err = ""
                   THEN [procs EXCEPT ![p].recv =
                               Append(@, NewReceiver(Len(procs[p].emitted)))]
                   ELSE procs
       /\ Returned("Attach", <<>>,
                   IF err = "" THEN <<p, Len(procs[p].recv) + 1>> ELSE <<>>,
                   err)
  /\ UNCHANGED <<bvars, portFree, fails, lc>>

\* the process's iomux-link passes on a chunk of stdout or stderr
LinkEmit(p, source) ==
  /\ procs[p].status = "running"
  /\ Len(procs[p].recv) > 0
  /\ Len(procs[p].emitted) < MaxChunks
  /\ procs' = [procs EXCEPT
                 ![p].emitted = Append(@, DataChunk(source)),
                 ![p].recv = FanOut(@, DataChunk(source))]
  /\ UNCHANGED <<bvars, portFree, fails, lc, last>>

\* (mutation of LinkEnded: the streams are closed without the exit status)
LinkEndedSilently(proc, status) ==
  [proc EXCEPT !.status = "ended", !.recv = CloseAll(@)]

\* the process record once its iomux-link has exited with the given status
LinkEnded(proc, status) ==
  [proc EXCEPT !.status = "ended",
               !.emitted = Append(@, ExitChunk(status)),
               !.recv = CloseAll(FanOut(@, ExitChunk(status)))]

\* the process's iomux-link exits, by itself or interrupted: the exit status
\* goes out as the last chunk and every stream is closed
LinkExit(p) ==
  /\ procs[p].status = "running"
  /\ Len(procs[p].recv) > 0
  /\ \E status \in {0, 1} : procs' = [procs EXCEPT ![p] = LinkEnded(@, status)]
  /\ UNCHANGED <<bvars, portFree, fails, lc, last>>

LinkInterrupted(p) == procs[p].signalled /\ LinkExit(p)

\* (mutation of CleanupProcs: no link is interrupted)
CleanupProcsNone(ps) == ps

\* Cleanup interrupts the iomux-link of every running process
CleanupProcs(ps) ==
  [p \in PIDs |->
     IF ps[p].status = "running" /\ Len(ps[p].recv) > 0
     THEN [ps[p] EXCEPT !.signalled = TRUE] ELSE ps[p]]

\* LinuxContainer.Cleanup
LinuxContainerCleanup ==
  /\ lc.phase = "live"
  /\ lc' = StopOomNotifier(lc)
  /\ procs' = CleanupProcs(procs)
  /\ Returned("Cleanup", <<>>, <<>>, "")
  /\ UNCHANGED <<bvars, portFree, fails>>

\* a container fresh from NewLinuxContainer, with the pool it draws ports from
InitContainer ==
  /\ boot = NotStarted("after")
  /\ uidFree = UIDs
  /\ netFree = Nets
  /\ portFree = PoolRange
  /\ objs = [i \in IDs |-> NoObj]
  /\ containers = [h \in Handles |-> NoID]
  /\ depot = {}
  /\ snapshots = {}
  /\ tmpdir = {}
  /\ nextID = 1
  /\ fails = 0
  /\ pc = [t \in Threads |-> "idle"]
  /\ loc = [t \in Threads |-> NoCall]
  /\ lc = NewContainerState
  /\ procs = [p \in PIDs |-> NoProc]
  /\ last = NoOp

\* the container's life, its limits and its net rules
NextContainer ==
  \/ LinuxContainerStart
  \/ \E s \in ContainerSnapshots : LinuxContainerRestore(s)
  \/ \E kill \in BOOLEAN : LinuxContainerStop(kill)
  \/ \E limit \in {1, 2} : LinuxContainerLimitMemory(limit)
  \/ LinuxContainerOomExit
  \/ LinuxContainerOomHandle
  \/ \E h \in {0, HostPort}, c \in {0, ContainerPort} : LinuxContainerNetIn(h, c)

SpecContainer == InitContainer /\ [][NextContainer]_vars

\* the goroutine that waits for the notifier is not held up for ever
SpecContainerFair == SpecContainer /\ WF_vars(LinuxContainerOomHandle)

\* the container's processes and their streams
NextProcess ==
  \/ LinuxContainerStart
  \/ \E s \in ContainerSnapshots : LinuxContainerRestore(s)
  \/ LinuxContainerRun
  \/ \E p \in PIDs : LinuxContainerRunSpawned(p)
  \/ \E p \in PIDs : LinuxContainerAttach(p)
  \/ \E p \in PIDs, source \in {"stdout", "stderr"} : LinkEmit(p, source)
  \/ \E p \in PIDs : LinkExit(p)
  \/ LinuxContainerCleanup

SpecProcess == InitContainer /\ [][NextProcess]_vars

\* an interrupted iomux-link exits
SpecProcessFair ==
  SpecProcess /\ \A p \in PIDs : WF_vars(LinkInterrupted(p))

(* ------------------- the resource pools on their own ------------------- *)

\* the UIDPool, the NetworkPool and the PortPool
PoolNames == {"uid", "net", "port"}

\* the values a pool was constructed with
RangeOf(k) == CASE k = "uid" -> UIDs [] k = "net" -> Nets [] k = "port" -> PoolRange

FreeOf(k) == CASE k = "uid" -> uidFree [] k = "net" -> netFree [] k = "port" -> portFree

\* no pool call yet.  held is the client's record: per pool, the values
\* Acquire returned that were not released since, in the order returned
NoPoolCall ==
  [op |-> "", pool |-> "", arg |-> None, ret |-> None, err |-> "",
   held |-> [k \in PoolNames |-> <<>>]]

\* the call op(arg) on pool k returns (ret, err) and leaves free1 free
PoolReturned(k, op, arg, ret, err, free1, held1) ==
  /\ uidFree' = IF k = "uid" THEN free1 ELSE uidFree
  /\ netFree' = IF k = "net" THEN free1 ELSE netFree
  /\ portFree' = IF k = "port" THEN free1 ELSE portFree
  /\ last' = [op |-> op, pool |-> k, arg |-> arg, ret |-> ret, err |-> err,
              held |-> [last.held EXCEPT ![k] = held1]]
  /\ UNCHANGED <<nextID, objs, containers, depot, snapshots, boot, fails, pc,
                 loc, lc, procs, tmpdir>>

\* seq without its elements equal to v
Without(seq, v) == SelectSeq(seq, LAMBDA x : x # v)

\* pool.Acquire()
PoolCallAcquire(k) ==
  LET v == PoolAcquire(FreeOf(k))
  IN IF v = None
     THEN PoolReturned(k, "Acquire", None, None, "PoolExhausted", FreeOf(k),
                       last.held[k])
     ELSE PoolReturned(k, "Acquire", None, v, "", FreeOf(k) \ {v},
                       Append(last.held[k], v))

\* pool.Release(v)
PoolCallRelease(k, v) ==
  PoolReturned(k, "Release", v, None, "", PoolRelease(FreeOf(k), RangeOf(k), v),
               Without(last.held[k], v))

\* pool.Remove(v)
PoolCallRemove(k, v) ==
  PoolReturned(k, "Remove", v, None, PoolRemoveError(FreeOf(k), RangeOf(k), v),
               PoolRemove(FreeOf(k), RangeOf(k), v), last.held[k])

\* the pools as their constructors leave them: every value free
InitPool ==
  /\ boot = NotStarted("after")
  /\ uidFree = UIDs
  /\ netFree = Nets
  /\ portFree = PoolRange
  /\ objs = [i \in IDs |-> NoObj]
  /\ containers = [h \in Handles |-> NoID]
  /\ depot = {}
  /\ snapshots = {}
  /\ tmpdir = {}
  /\ nextID = 1
  /\ fails = 0
  /\ pc = [t \in Threads |-> "idle"]
  /\ loc = [t \in Threads |-> NoCall]
  /\ lc = NewContainerState
  /\ procs = [p \in PIDs |-> NoProc]
  /\ last = NoPoolCall

\* the values a caller may name: those of the pool and one it never had
ArgsOf(k) == RangeOf(k) \cup {Max(RangeOf(k)) + 1}

\* any caller, any operation, in any order
NextPool ==
  \/ \E k \in PoolNames : PoolCallAcquire(k)
  \/ \E k \in PoolNames : \E v \in ArgsOf(k) : PoolCallRelease(k, v)
  \/ \E k \in PoolNames : \E v \in ArgsOf(k) : PoolCallRemove(k, v)

SpecPool == InitPool /\ [][NextPool]_vars

(* ------------------------- generateContainerIDs ------------------------ *)

\* containerNum is an int64: its bits, bit 0 the least significant
WordBits == 64

Bits == 0..(WordBits - 1)

\* the int64 whose bits at the positions in S are set
WordOf(S) == [b \in Bits |-> IF b \in S THEN 1 ELSE 0]

\* containerNum++, wrapping as int64 addition does
Increment(n) ==
  [b \in Bits |-> IF \A c \in 0..(b - 1) : n[c] = 1 THEN 1 - n[b] ELSE n[b]]

\* (mutation of ShiftRightAnd31: the shift is five bits too far)
ShiftRightAnd31TooFar(n, shift) ==
  LET bit(b) == IF shift + 5 + b < WordBits THEN n[shift + 5 + b]
                ELSE n[WordBits - 1]
  IN bit(0) + 2 * bit(1) + 4 * bit(2) + 8 * bit(3) + 16 * bit(4)

\* (n >> shift) & 31, the shift being arithmetic
ShiftRightAnd31(n, shift) ==
  LET bit(b) == IF shift + b < WordBits THEN n[shift + b] ELSE n[WordBits - 1]
  IN bit(0) + 2 * bit(1) + 4 * bit(2) + 8 * bit(3) + 16 * bit(4)

\* the digits of strconv's base 32
Base32Digits ==
  <<"0", "1", "2", "3", "4", "5", "6", "7", "8", "9", "a", "b", "c", "d", "e",
    "f", "g", "h", "i", "j", "k", "l", "m", "n", "o", "p", "q", "r", "s", "t",
    "u", "v">>

\* strconv.AppendInt(_, d, 32) for 0 <= d < 32: one digit
AppendInt(d) == Base32Digits[d + 1]

\* for i := 0; i < 11; i++ { append (containerNum >> (55 - (i+1)*5)) & 31 }
ContainerID(n) ==
  [i \in 1..11 |-> AppendInt(ShiftRightAnd31(n, 55 - i * 5))]

\* time.Now().UnixNano() at New: zero; a number whose last digit is about
\* to carry; one whose eleven digits are all about to carry; minus one; the
\* largest int64; one with bits set above and below bit 55
StartNums ==
  { WordOf({}),
    WordOf(0..4),
    WordOf(0..54),
    WordOf(Bits),
    WordOf(0..(WordBits - 2)),
    WordOf({1, 4, 5, 9, 30, 31, 54, 55, 60}) }

\* no Create has drawn an id yet
NoDraws == [op |-> "", ids |-> <<>>]

\* id := <-p.containerIDs in Create of thread t: the generator's send and
\* the receive are one step of the unbuffered channel, after which the
\* generator goes round its loop
PoolCreateDrawID(t) ==
  /\ pc[t] = "idle"
  /\ Len(last.ids) < MaxDraws
  /\ pc' = [pc EXCEPT ![t] = "c_create"]
  /\ loc' = [loc EXCEPT ![t] = [NoCall EXCEPT !.op = "Create",
                                  !.cid = ContainerID(nextID)]]
  /\ nextID' = Increment(nextID)
  /\ last' = [op |-> "Create", ids |-> Append(last.ids, ContainerID(nextID))]
  /\ UNCHANGED <<uidFree, netFree, portFree, objs, containers, depot, snapshots,
                 boot, fails, lc, procs, tmpdir>>

\* the Create of thread t returns its container, whose id is the one drawn
PoolCreateReturn(t) ==
  /\ pc[t] = "c_create"
  /\ pc' = [pc EXCEPT ![t] = "idle"]
  /\ loc' = [loc EXCEPT ![t] = NoCall]
  /\ last' = [last EXCEPT !.op = "Return"]
  /\ UNCHANGED <<uidFree, netFree, portFree, nextID, objs, containers, depot,
                 snapshots, boot, fails, lc, procs, tmpdir>>

\* the pool after New: the generator is at its first containerNum
InitIDs ==
  /\ boot = NotStarted("after")
  /\ uidFree = UIDs
  /\ netFree = Nets
  /\ portFree = Ports
  /\ objs = [i \in IDs |-> NoObj]
  /\ containers = [h \in Handles |-> NoID]
  /\ depot = {}
  /\ snapshots = {}
  /\ tmpdir = {}
  /\ nextID \in StartNums
  /\ fails = 0
  /\ pc = [t \in Threads |-> "idle"]
  /\ loc = [t \in Threads |-> NoCall]
  /\ lc = NewContainerState
  /\ procs = [p \in PIDs |-> NoProc]
  /\ last = NoDraws

NextIDs ==
  \/ \E t \in Threads : PoolCreateDrawID(t)
  \/ \E t \in Threads : PoolCreateReturn(t)

SpecIDs == InitIDs /\ [][NextIDs]_vars

TypeOK ==
  /\ uidFree \subseteq UIDs
  /\ netFree \subseteq Nets
  /\ portFree \subseteq Ports
  /\ nextID \in 1..(MaxIDs + 1)
  /\ \A h \in Handles : containers[h] \in IDs \cup {NoID}
  /\ depot \subseteq IDs
  /\ fails \in 0..MaxFails

(* ------------------------------ properties ----------------------------- *)

\* no Backend operation is in progress
Quiescent == Serving /\ \A t \in Threads : pc[t] = "idle"

\* the live containers: created (or restored) and not destroyed
LiveSet == {i \in IDs : objs[i] # NoObj /\ i \in depot}

RegisteredSet == {i \in IDs : Registered(i)}

PortsOf(i) == SeqToSet(objs[i].ports)

\* C1: whenever no operation is in progress, no two live containers share a
\* UID, a Network or a handle, and the UID and the Network of a live
\* container are held by it alone: they are not in the pools' free sets.
C1_ExclusiveResources ==
  Quiescent =>
    /\ \A i, j \in LiveSet :
         i # j => /\ objs[i].uid # objs[j].uid
                  /\ objs[i].net # objs[j].net
                  /\ objs[i].handle # objs[j].handle
    /\ \A i \in LiveSet : objs[i].uid \notin uidFree /\ objs[i].net \notin netFree

\* C2: whenever no operation is in progress, every port of the pool's range
\* is in the free set or in the port list of exactly one live container,
\* never in both and never in two lists (or twice in one).
C2_PortsPartitioned ==
  Quiescent =>
    \A p \in Ports :
      LET owners == {i \in LiveSet : p \in PortsOf(i)}
      IN /\ (p \in portFree) <=> (owners = {})
         /\ Cardinality(owners) <= 1
         /\ \A i \in owners :
              Cardinality({k \in 1..Len(objs[i].ports) : objs[i].ports[k] = p}) = 1

\* C3: whenever no operation is in progress, a UID, Network or port is in
\* its pool's free set if and only if no registered container holds it.
C3_FreeIffUnregistered ==
  Quiescent =>
    /\ \A u \in UIDs :
         (u \in uidFree) <=> ~ \E i \in RegisteredSet : objs[i].uid = u
    /\ \A n \in Nets :
         (n \in netFree) <=> ~ \E i \in RegisteredSet : objs[i].net = n
    /\ \A p \in Ports :
         (p \in portFree) <=> ~ \E i \in RegisteredSet : p \in PortsOf(i)

\* thread t takes a step from position p to position q
Step(t, p, q) == pc[t] = p /\ pc'[t] = q

\* C4: ContainerPool.Create is failure-atomic for its acquisition steps.  A
\* failed UID acquisition changes no pool, draws no id and runs no create.sh;
\* a failed Network acquisition puts the UID back and takes no Network; a
\* failed create.sh puts the UID and the Network back.  Each returns its
\* error and no container, and registers nothing.
C4_CreateFailureAtomic ==
  [][\A t \in Threads :
       /\ (Step(t, "idle", "done") /\ loc'[t].op = "Create") =>
            /\ loc'[t].err = "uid PoolExhausted"
            /\ loc'[t].ret = NoID
            /\ UNCHANGED <<uidFree, netFree, portFree, nextID, depot, objs,
                           containers>>
       /\ Step(t, "c_net", "done") =>
            /\ loc'[t].err = "network PoolExhausted"
            /\ loc'[t].ret = NoID
            /\ loc[t].uid \in uidFree'
            /\ UNCHANGED <<netFree, portFree, nextID, depot, objs, containers>>
       /\ Step(t, "c_create", "done") =>
            /\ loc'[t].err = "create.sh failed"
            /\ loc'[t].ret = NoID
            /\ loc[t].uid \in uidFree'
            /\ loc[t].net \in netFree'
            /\ UNCHANGED <<portFree, depot, objs, containers>>
    ]_vars

\* a Create has just failed to acquire a Network and its UID is free again
C4_Witness ==
  \E t \in Threads :
    /\ pc[t] = "done"
    /\ loc[t].op = "Create"
    /\ loc[t].err = "network PoolExhausted"
    /\ loc[t].uid \in uidFree

\* C5: when an append to hook-child-before-pivot.sh fails, Create returns
\* the error at that append (the first failing one), and releases no UID,
\* no Network and destroys nothing: pools, depot and registry stay as they are.
C5_BindMountFailureLeaks ==
  [][\A t \in Threads :
       Step(t, "c_mounts", "done") =>
         /\ loc'[t].err = "hook append failed"
         /\ loc'[t].ret = NoID
         /\ loc'[t].writes \in 1..(4 * MaxMounts)
         /\ loc[t].cid \in depot'
         /\ UNCHANGED <<uidFree, netFree, portFree, depot, containers>>
    ]_vars

\* a Create has failed on a hook append; its UID and Network are still taken
\* and its depot entry is still there
C5_Witness ==
  \E t \in Threads :
    /\ pc[t] = "done"
    /\ loc[t].err = "hook append failed"
    /\ loc[t].uid \notin uidFree
    /\ loc[t].net \notin netFree
    /\ loc[t].cid \in depot

\* C6: ContainerPool.Destroy runs destroy.sh first and releases nothing in
\* that step; after a success it releases every port of the container's
\* list, then the UID, then the Network; after a failure it returns the
\* error and releases nothing.
C6_DestroyReleases ==
  [][\A t \in Threads :
       /\ Step(t, "d_script", "done") =>
            /\ loc'[t].err = "destroy.sh failed"
            /\ UNCHANGED <<uidFree, netFree, portFree, depot, containers>>
       /\ Step(t, "d_script", "d_ports") =>
            /\ loc[t].cid \notin depot'
            /\ UNCHANGED <<uidFree, netFree, portFree>>
       /\ Step(t, "d_ports", "d_uid") =>
            /\ PortsOf(loc[t].cid) \subseteq portFree'
            /\ UNCHANGED <<uidFree, netFree>>
       /\ Step(t, "d_uid", "d_net") =>
            /\ objs[loc[t].cid].uid \in uidFree'
            /\ UNCHANGED <<netFree, portFree>>
       /\ Step(t, "d_net", "d_unregister") =>
            /\ objs[loc[t].cid].net \in netFree'
            /\ UNCHANGED <<uidFree, portFree>>
       /\ (pc[t] = "d_script" /\ pc'[t] # "d_script") =>
            pc'[t] \in {"d_ports", "done"}
    ]_vars

\* ContainerPool.Destroy has succeeded for a container that had a port: the
\* port, the UID and the Network are back in the free sets
C6_Witness ==
  \E t \in Threads :
    /\ pc[t] = "d_unregister"
    /\ PortsOf(loc[t].cid) # {}
    /\ PortsOf(loc[t].cid) \subseteq portFree
    /\ objs[loc[t].cid].uid \in uidFree
    /\ objs[loc[t].cid].net \in netFree

\* C7: while destroy.sh is about to run for a container in Backend.Destroy,
\* Lookup of the handle already fails: the handle is not registered.
C7_UnregisteredBeforeDestroy ==
  \A t \in Threads : pc[t] = "d_script" => containers[loc[t].handle] = NoID

\* C7 (amended): a handle leaves the registry only in the last step of a
\* Backend.Destroy, after ContainerPool.Destroy has succeeded for the
\* container that Destroy looked up: destroy.sh has run and its depot entry
\* is gone.
C7_UnregisteredAfterDestroy ==
  [][\A h \in Handles :
       (containers[h] # NoID /\ containers'[h] = NoID) =>
         \E t \in Threads :
           /\ Step(t, "d_unregister", "done")
           /\ objs[loc[t].cid].handle = h
           /\ loc[t].cid \notin depot
           /\ loc'[t].err = ""
    ]_vars

\* destroy.sh has succeeded and the resources are released while the
\* container is still registered under its handle
C7_Witness ==
  \E t \in Threads :
    /\ pc[t] = "d_unregister"
    /\ containers[loc[t].handle] = loc[t].cid
    /\ loc[t].cid \notin depot

\* C8: of two concurrent Destroy calls on the same registered handle only
\* one gets to ContainerPool.Destroy: no two threads have both run destroy.sh
\* for the same container and are both releasing its resources.
C8_DestroyOnce ==
  \A t, u \in Threads :
    (t # u /\ loc[t].cid = loc[u].cid /\ loc[t].cid # NoID) =>
      ~ (/\ pc[t] \in {"d_ports", "d_uid", "d_net", "d_unregister"}
         /\ pc[u] \in {"d_ports", "d_uid", "d_net", "d_unregister"})

\* every registered container was started or restored successfully
RegisteredAreStarted ==
  \A h \in Handles :
    containers[h] # NoID =>
      /\ objs[containers[h]] # NoObj
      /\ objs[containers[h]].handle = h
      /\ objs[containers[h]].restored \/ objs[containers[h]].state = "active"

\* C9: Backend.Create registers the container only in its last step, after
\* ContainerPool.Create and Start both succeeded; a Create that fails
\* returns its error and leaves the registry as it is; so every registered
\* container was started or restored successfully.
C9_RegisterAfterStart ==
  [][/\ \A t \in Threads :
          (pc[t] \in {"idle", "c_net", "c_create", "c_mounts", "c_start"}
             /\ pc'[t] = "done" /\ loc'[t].op = "Create") =>
            /\ loc'[t].err # ""
            /\ loc'[t].ret = NoID
            /\ containers' = containers
     /\ \A t \in Threads :
          Step(t, "c_register", "done") =>
            /\ loc'[t].err = ""
            /\ loc'[t].ret = loc[t].cid
            /\ objs[loc[t].cid].state = "active"
            /\ containers'[objs[loc[t].cid].handle] = loc[t].cid
     /\ RegisteredAreStarted'
    ]_vars

\* a Create has failed in start.sh: its container is still born and is not
\* registered
C9_Witness ==
  \E t \in Threads :
    /\ pc[t] = "done"
    /\ loc[t].err = "start.sh failed"
    /\ objs[loc[t].cid].state = "born"
    /\ ~ Registered(loc[t].cid)

\* C10: Destroy and Lookup of a handle that is not registered return
\* UnknownHandle; the registry, the pools and the depot stay as they are,
\* and Destroy goes on to ContainerPool.Destroy only for a registered handle.
C10_UnknownHandle ==
  [][\A t \in Threads :
       /\ (Step(t, "idle", "done") /\ loc'[t].op \in {"Destroy", "Lookup"}
             /\ containers[loc'[t].handle] = NoID) =>
            /\ loc'[t].err = "UnknownHandle"
            /\ loc'[t].ret = NoID
            /\ UNCHANGED <<uidFree, netFree, portFree, containers, depot, objs>>
       /\ Step(t, "idle", "d_script") =>
            /\ containers[loc'[t].handle] # NoID
            /\ loc'[t].cid = containers[loc'[t].handle]
       /\ (Step(t, "idle", "done") /\ loc'[t].op = "Lookup"
             /\ containers[loc'[t].handle] # NoID) =>
            /\ loc'[t].err = ""
            /\ loc'[t].ret = containers[loc'[t].handle]
    ]_vars

\* a Destroy of an unregistered handle has returned UnknownHandle while
\* another container is registered and holds resources
C10_Witness ==
  \E t \in Threads :
    /\ pc[t] = "done"
    /\ loc[t].op = "Destroy"
    /\ loc[t].err = "UnknownHandle"
    /\ containers[loc[t].handle] = NoID
    /\ RegisteredSet # {}

\* C11: when ContainerPool.Destroy fails inside Backend.Destroy, the call
\* returns the error and changes neither the registry nor the pools nor the
\* depot, so a container that was registered stays registered with its
\* resources held; and a registered handle is deleted only by a Destroy
\* whose ContainerPool.Destroy returned without error.
C11_FailedDestroyKeepsContainer ==
  [][/\ \A t \in Threads :
          Step(t, "d_script", "done") =>
            /\ loc'[t].err = "destroy.sh failed"
            /\ containers' = containers
            /\ containers[loc[t].handle] = loc[t].cid =>
                  /\ containers'[loc[t].handle] = loc[t].cid
                  /\ objs'[loc[t].cid] = objs[loc[t].cid]
            /\ UNCHANGED <<uidFree, netFree, portFree, depot>>
     /\ \A h \in Handles :
          (containers[h] # NoID /\ containers'[h] = NoID) =>
            \E t \in Threads : pc[t] = "d_unregister" /\ loc[t].err = ""
    ]_vars

\* a Destroy has failed in destroy.sh: the container is still registered
\* under the handle, its depot entry exists and its UID and Network are
\* still out of the free sets
C11_Witness ==
  \E t \in Threads :
    /\ pc[t] = "done"
    /\ loc[t].op = "Destroy"
    /\ loc[t].err = "destroy.sh failed"
    /\ containers[loc[t].handle] = loc[t].cid
    /\ loc[t].cid \in depot
    /\ objs[loc[t].cid].uid \notin uidFree
    /\ objs[loc[t].cid].net \notin netFree

(* ------------------------- Backend.Start properties -------------------- *)

StartPhases == {"start", "restore", "list", "prune"}

\* the snapshot Backend.Start is about to restore
HeadSnapshot == CHOOSE x \in snapshots : x.id = Head(boot.todo)

\* C12: Backend.Start is strictly ordered.  The snapshots directory is
\* emptied only when every snapshot file has been restored and its container
\* registered; Prune is entered only from there, once, with a keep-set equal
\* to the ids of all registered containers; and Prune's destroy.sh never
\* removes the depot entry of a restored container.
C12_StartOrdered ==
  [][/\ (boot.pc \in StartPhases /\ snapshots' # snapshots) =>
          /\ boot.pc = "restore" /\ boot.todo = <<>>
          /\ \A s \in snapshots : containers[s.handle] = s.id /\ objs[s.id].restored
          /\ snapshots' = {}
     /\ (boot.pc # "list" /\ boot'.pc = "list") =>
          /\ boot.pc = "restore"
          /\ snapshots' = {}
          /\ boot'.keep = RegisteredSet
     /\ (boot.pc # "prune" /\ boot'.pc = "prune") => boot.pc = "list"
     /\ boot'.pc = "prune" => boot'.keep = RegisteredSet' /\ snapshots' = {}
     /\ (boot.pc \in StartPhases /\ depot' # depot) =>
          /\ boot.pc = "prune"
          /\ \A i \in depot \ depot' : ~ Registered(i) /\ objs[i] = NoObj
          /\ \A i \in RegisteredSet : objs[i].restored => (i \in depot <=> i \in depot')
    ]_vars

\* Prune has finished after a restore: the restored container is in the
\* keep-set and kept its depot entry, the other depot entry was destroyed,
\* and the snapshots directory is empty
C12_Witness ==
  /\ boot.pc = "prune"
  /\ boot.todo = <<>>
  /\ boot.keep = {1}
  /\ objs[1].restored
  /\ 1 \in depot
  /\ boot.destroyed = <<2>>
  /\ snapshots = {}

\* C13: Prune started by Backend.Start never runs destroy.sh on the depot
\* entry of a container that a concurrent Backend.Create has created and is
\* starting or registering, or has registered.
C13_PruneSparesCreates ==
  [][(boot.pc = "prune" /\ boot'.pc # "serving"
        /\ boot'.destroyed # boot.destroyed) =>
       LET id == Head(boot.todo)
       IN /\ ~ Registered(id)
          /\ ~ \E t \in Threads :
                 loc[t].cid = id /\ pc[t] \in {"c_mounts", "c_start", "c_register"}
    ]_vars

\* C14: when restoring a snapshot fails (decode, pool removal or script
\* replay), Start returns that error at once: the failing snapshot and the
\* later ones stay unrestored, the snapshots directory is not removed, Prune
\* is not called, and nothing happens afterwards.
C14_RestoreFailureAborts ==
  [][/\ (boot.pc = "restore" /\ boot.todo # <<>> /\ boot'.pc # "restore") =>
          /\ boot'.pc = "failed"
          /\ boot'.err \in {"decode failed", "restore failed", "uid NotInPool",
                            "uid AlreadyAllocated", "network NotInPool",
                            "network AlreadyAllocated", "port NotInPool",
                            "port AlreadyAllocated"}
          /\ boot'.todo = boot.todo
          /\ boot'.keep = {} /\ boot'.listing = <<>> /\ boot'.destroyed = <<>>
          /\ UNCHANGED <<objs, containers, snapshots, depot>>
     /\ (boot.pc = "restore" /\ boot.todo # <<>> /\ boot'.pc = "restore"
           /\ boot' # boot) =>
          /\ HeadSnapshot.decodes
          /\ PoolRestoreResources(HeadSnapshot).err = ""
          /\ containers'[HeadSnapshot.handle] = HeadSnapshot.id
     /\ boot.pc = "failed" => UNCHANGED vars
    ]_vars

\* the first of two snapshots has failed to restore: both are still to do,
\* the snapshot files are still there and no depot entry was destroyed
C14_Witness ==
  /\ boot.pc = "failed"
  /\ boot.err = "restore failed"
  /\ Len(boot.todo) = 2
  /\ Cardinality(snapshots) = 2
  /\ RegisteredSet = {}
  /\ depot = {1, 2}

\* the entries of seq that Prune has to destroy
Prunable(seq, keep) == SelectSeq(seq, LAMBDA x : x # Tmp /\ x \notin keep)

\* the number of listed entries Prune has dealt with
Processed == Len(boot.listing) - Len(boot.todo)

\* C15: Prune runs destroy.sh, in listing order, on exactly the listed
\* entries that are neither "tmp" nor in the keep-set: what it has run
\* destroy.sh on is always the prunable part of the entries it has dealt
\* with, never "tmp" and never a kept id; when it returns nil the prunable
\* entries are gone and the kept ones are still there; and when ls fails it
\* returns that error and has destroyed nothing.
C15_PruneDestroysOrphans ==
  [][/\ boot'.pc = "prune" =>
          /\ boot'.todo = SubSeq(boot'.listing, Processed' + 1, Len(boot'.listing))
          /\ boot'.destroyed =
               Prunable(SubSeq(boot'.listing, 1, Processed'), boot'.keep)
     /\ (boot.pc = "prune" /\ boot'.pc = "failed") =>
          boot'.destroyed =
            Prunable(SubSeq(boot.listing, 1, Processed + 1), boot.keep)
     /\ Tmp \notin SeqToSet(boot'.destroyed)
     /\ SeqToSet(boot'.destroyed) \cap boot'.keep = {}
     /\ (boot.pc = "prune" /\ boot'.pc = "serving" /\ boot.accept = "after") =>
          \A i \in SeqToSet(boot.listing) \ {Tmp} : i \in depot <=> i \in boot.keep
     /\ (boot.pc = "list" /\ boot'.pc = "failed") =>
          /\ boot'.err = "ls failed"
          /\ boot'.destroyed = <<>>
          /\ depot' = depot
    ]_vars

\* Prune has dealt with the listing 1, tmp, 2 under the keep-set {1}:
\* destroy.sh ran on 2 only
C15_Witness ==
  /\ boot.pc = "prune"
  /\ boot.todo = <<>>
  /\ boot.listing = <<1, Tmp, 2>>
  /\ boot.keep = {1}
  /\ boot.destroyed = <<2>>
  /\ depot = {1}

\* C16: the first destroy.sh failure aborts Prune: the error is returned,
\* the failing entry and the entries listed after it keep their depot
\* directories, and nothing is destroyed afterwards.
C16_PruneStopsAtFirstFailure ==
  [][/\ (boot.pc = "prune" /\ boot.accept = "after" /\ fails' # fails) =>
          boot'.pc = "failed"
     /\ (boot.pc = "prune" /\ boot'.pc = "failed") =>
          /\ boot'.err = "destroy.sh failed"
          /\ boot'.todo = boot.todo
          /\ boot'.destroyed = Append(boot.destroyed, Head(boot.todo))
          /\ depot' = depot
     /\ boot.pc = "failed" => UNCHANGED <<depot, boot>>
    ]_vars

\* destroy.sh has failed on the first prunable entry while a second one is
\* listed after it: both depot directories are still there
C16_Witness ==
  /\ boot.pc = "failed"
  /\ boot.err = "destroy.sh failed"
  /\ boot.destroyed = <<1>>
  /\ 2 \in SeqToSet(Tail(boot.todo))
  /\ boot.keep = {}
  /\ depot = {1, 2}

\* C17: ContainerPool.Restore takes the snapshot's resources out of the
\* pools in the order UID, Network, ports.  When the UID cannot be removed
\* the UID error is returned and no pool changes; when the UID can and the
\* Network cannot, the Network error is returned, the UID is free again, and
\* the Network and port pools are unchanged; in both cases no container is
\* constructed or registered.  When nothing fails, exactly the snapshot's
\* UID, Network and ports have left the free sets.
C17_RestoreRemovalOrder ==
  [][(boot.pc = "restore" /\ boot.todo # <<>> /\ boot' # boot
        /\ HeadSnapshot.decodes) =>
       LET s == HeadSnapshot
       IN /\ s.uid \notin uidFree =>
               /\ boot'.pc = "failed"
               /\ boot'.err \in {"uid NotInPool", "uid AlreadyAllocated"}
               /\ UNCHANGED <<uidFree, netFree, portFree, objs, containers>>
          /\ (s.uid \in uidFree /\ s.net \notin netFree) =>
               /\ boot'.pc = "failed"
               /\ boot'.err \in {"network NotInPool", "network AlreadyAllocated"}
               /\ s.uid \in uidFree'
               /\ UNCHANGED <<uidFree, netFree, portFree, objs, containers>>
          /\ boot'.err \in {"", "restore failed"} =>
               /\ uidFree' = uidFree \ {s.uid}
               /\ netFree' = netFree \ {s.net}
               /\ portFree' = portFree \ SeqToSet(s.ports)
               /\ s.uid \in uidFree /\ s.net \in netFree
               /\ SeqToSet(s.ports) \subseteq portFree
    ]_vars

\* Restore of the second snapshot has failed on its Network, which the first
\* restored container holds: the snapshot's UID is free, the first
\* container's resources are still taken
C17_Witness ==
  /\ boot.pc = "failed"
  /\ boot.err = "network AlreadyAllocated"
  /\ boot.todo = <<2>>
  /\ HeadSnapshot.uid \in uidFree
  /\ HeadSnapshot.net \notin netFree
  /\ objs[1].restored
  /\ objs[2] = NoObj

\* C18: when removing a port fails during ContainerPool.Restore, Restore
\* returns that error and the snapshot's UID, its Network and every port it
\* names (of the pool's range) are in the free sets afterwards; no container
\* is constructed or registered.
C18_RestorePortFailureReleasesAll ==
  [][(boot.pc = "restore" /\ boot.todo # <<>>
        /\ boot'.err \in {"port NotInPool", "port AlreadyAllocated"}) =>
       /\ boot'.pc = "failed"
       /\ HeadSnapshot.uid \in uidFree'
       /\ HeadSnapshot.net \in netFree'
       /\ SeqToSet(HeadSnapshot.ports) \cap Ports \subseteq portFree'
       /\ UNCHANGED <<objs, containers>>
    ]_vars

\* Restore has failed on the second port of a snapshot after it had removed
\* the first: the first port, the UID and the Network are free again
C18_Witness ==
  /\ boot.pc = "failed"
  /\ boot.err = "port NotInPool"
  /\ Len(HeadSnapshot.ports) = 2
  /\ HeadSnapshot.ports[1] \in portFree
  /\ HeadSnapshot.uid \in uidFree
  /\ HeadSnapshot.net \in netFree

(* ------------------------- container properties ------------------------ *)

\* C19: Snapshot followed by Restore is a round trip.  For every snapshot
\* that Backend.Stop wrote for a registered container c, ContainerPool.Restore
\* on full pools succeeds, takes the UID, the Network and every port of c
\* out of the free sets, and yields a container with c's handle, state,
\* netIns and resource triple.
C19_SnapshotRestoreRoundTrip ==
  boot.pc = "stopped" =>
    /\ {s.id : s \in snapshots} = RegisteredSet
    /\ \A s \in snapshots :
         LET c == objs[s.id]
             r == PoolRestore(s, UIDs, Nets, Ports)
             d == RestoredContainer(s)
         IN /\ r.err = ""
            /\ s.uid \notin r.uid /\ c.uid \notin r.uid
            /\ s.net \notin r.net /\ c.net \notin r.net
            /\ SeqToSet(c.ports) \cap r.port = {}
            /\ d.handle = c.handle
            /\ d.state = c.state
            /\ d.netIns = c.netIns
            /\ <<d.uid, d.net, d.ports>> = <<c.uid, c.net, c.ports>>

\* Backend.Stop has snapshotted an active container that holds a port with
\* a recorded netIn
C19_Witness ==
  /\ boot.pc = "stopped"
  /\ \E s \in snapshots :
       /\ s.ports # <<>>
       /\ s.netIns # <<>>
       /\ objs[s.id].state = "active"
       /\ ~ objs[s.id].restored

\* C20: Container.Start moves the state from born to active when start.sh
\* succeeds, and leaves it at born and returns the script error when
\* start.sh fails.
C20_StartBornToActive ==
  [][\A t \in Threads :
       /\ pc[t] = "c_start" => objs[loc[t].cid].state = "born"
       /\ Step(t, "c_start", "c_register") =>
            /\ objs'[loc[t].cid].state = "active"
            /\ loc'[t].err = ""
       /\ Step(t, "c_start", "done") =>
            /\ objs'[loc[t].cid].state = "born"
            /\ loc'[t].err = "start.sh failed"
       /\ (pc[t] = "c_start" /\ pc'[t] # "c_start") =>
            pc'[t] \in {"c_register", "done"}
    ]_vars

\* start.sh has succeeded for a container that is not registered yet: its
\* state is active
C20_Witness ==
  \E t \in Threads :
    /\ pc[t] = "c_register"
    /\ objs[loc[t].cid].state = "active"
    /\ ~ Registered(loc[t].cid)

(* ------------------- properties of one LinuxContainer ------------------ *)

StateRank(state) ==
  CASE state = "born" -> 0
    [] state = "active" -> 1
    [] state = "stopped" -> 2

HasCmd(cmds, path) == \E i \in 1..Len(cmds) : cmds[i].path = path

\* C23: once the OOM notifier that LimitMemory started has exited 0, an
\* 'out of memory' event is eventually registered and stop.sh is run without
\* -w 0 (Stop(false)), and the container is stopped when that stop.sh
\* succeeds; a LimitMemory called while the notifier runs starts no second
\* notifier, and one called without a notifier starts it first.
C23_OomStops ==
  /\ (lc.oom = "exited") ~>
        (/\ last.op = "oom"
         /\ last.cmds = <<StopCmd(FALSE)>>
         /\ lc.events # <<>>
         /\ lc.events[Len(lc.events)] = "out of memory")
  /\ [][/\ LinuxContainerOomHandle =>
             /\ lc'.events = Append(lc.events, "out of memory")
             /\ last'.err = "" => lc'.state = "stopped"
        /\ \A limit \in {1, 2} :
             LinuxContainerLimitMemory(limit) =>
               /\ lc.oom = "running" => ~HasCmd(last'.cmds, "bin/oom")
               /\ lc.oom = "none" => last'.cmds[1].path = "bin/oom"]_vars

\* the notifier of a limited container has exited and has been handled
C23_Witness ==
  /\ last.op = "oom"
  /\ lc.memLimit # None
  /\ lc.oom = "none"
  /\ Len(lc.events) = 1

\* C24: process ids only grow. A new container's counter is 0, so its first
\* Run gets id 0; every Run takes an id that is not in the process table and
\* is greater than every id in it, and moves the counter past it, so no two
\* Runs, one after the other or overlapping, get the same id; Restore leaves
\* the counter at the highest restored id plus one; Run returns the id taken.
C24_ProcessIDsMonotonic ==
  [][/\ \A q \in PIDs : procs'[q].status # "none" => q < lc'.nextPID
     /\ lc'.nextPID >= lc.nextPID
     /\ lc.phase = "new" => lc.nextPID = 0
     /\ LinuxContainerStart => lc'.nextPID = 0
     /\ LinuxContainerRun =>
          /\ procs[lc.nextPID].status = "none"
          /\ procs'[lc.nextPID].status = "spawning"
          /\ \A q \in Known : q < lc.nextPID
          /\ lc'.nextPID = lc.nextPID + 1
     /\ \A p \in PIDs :
          (LinuxContainerRunSpawned(p) /\ last'.err = "") => last'.ret[1] = p
     /\ \A s \in ContainerSnapshots :
          LinuxContainerRestore(s) =>
            lc'.nextPID = IF s.processes = {} THEN 0 ELSE Max(s.processes) + 1
    ]_vars

\* a container restored with process 1 alone has run a process: it got id 2
C24_Witness ==
  /\ last.op = "Run" /\ last.err = ""
  /\ last.ret[1] = 2
  /\ procs[0].status = "none" /\ procs[1].status # "none"

IsExit(chunk) == chunk.exit # <<>> /\ chunk.data = "" /\ chunk.source = ""

\* data chunks only, then, once the stream is closed, the one exit chunk
WellFormed(r) ==
  /\ \A k \in 1..Len(r.got) :
       IF r.closed /\ k = Len(r.got)
       THEN IsExit(r.got[k])
       ELSE r.got[k].exit = <<>> /\ r.got[k].source \in {"stdout", "stderr"}
  /\ r.closed => Len(r.got) > 0

C26_AttachErrors ==
  [][\A p \in PIDs :
       LinuxContainerAttach(p) =>
         /\ procs[p].status = "none" =>
              last'.err = "UnknownProcess" /\ last'.ret = <<>> /\ procs' = procs
         /\ procs[p].status = "ended" =>
              last'.err = "ProcessEnded" /\ last'.ret = <<>> /\ procs' = procs
         /\ procs[p].status = "running" =>
              /\ last'.err = "" /\ last'.ret # <<>>
              /\ Len(procs'[p].recv) = Len(procs[p].recv) + 1]_vars

\* Attach was refused for a process that had run and ended
C26_Witness ==
  /\ last.op = "Attach" /\ last.err = "ProcessEnded" /\ last.ret = <<>>
  /\ \E p \in PIDs : procs[p].status = "ended"

\* C27: Cleanup interrupts the iomux-link of every running process and
\* signals the OOM notifier if one runs; it runs no script (no destroy.sh),
\* leaves the state as it is, and a second Cleanup changes nothing more.
\* Every receiver of an interrupted process eventually holds the exit chunk
\* as its last chunk and sees its stream closed.
C27_CleanupUnblocks ==
  /\ [][LinuxContainerCleanup =>
          /\ \A p \in PIDs :
               (procs[p].status = "running" /\ Len(procs[p].recv) > 0)
                 => procs'[p].signalled
          /\ lc'.oom # "running"
          /\ lc'.state = lc.state
          /\ last'.cmds = <<>> /\ last'.err = ""
          /\ CleanupProcs(procs') = procs'
          /\ StopOomNotifier(lc') = lc']_vars
  /\ \A p \in PIDs :
       (procs[p].status = "running" /\ procs[p].signalled)
         ~> (/\ procs[p].status = "ended"
             /\ \A i \in 1..Len(procs[p].recv) :
                  /\ procs[p].recv[i].closed
                  /\ Len(procs[p].recv[i].got) > 0
                  /\ IsExit(procs[p].recv[i].got[Len(procs[p].recv[i].got)]))

\* after a Cleanup a process with two receivers has ended: both streams are
\* closed
C27_Witness ==
  \E p \in PIDs :
    /\ procs[p].signalled
    /\ procs[p].status = "ended"
    /\ Len(procs[p].recv) = 2
    /\ \A i \in 1..2 : procs[p].recv[i].closed
    /\ lc.state = "active"

ExpectedReplay(s) ==
  <<Cmd("net.sh", "setup", 0, 0)>>
    \o [i \in 1..Len(s.netIns) |->
          Cmd("net.sh", "in", s.netIns[i][1], s.netIns[i][2])]
    \o [i \in 1..Len(s.netOuts) |->
          Cmd("net.sh", "out", s.netOuts[i][1], s.netOuts[i][2])]
    \o (IF s.memLimit = None THEN <<>>
        ELSE << Cmd("bin/oom", "", 0, 0),
                Cmd("memory.limit_in_bytes", "", s.memLimit, 0),
                Cmd("memory.memsw.limit_in_bytes", "", s.memLimit, 0),
                Cmd("memory.limit_in_bytes", "", s.memLimit, 0) >>)

\* C29: Restore replays net.sh setup once, then net.sh in for every net-in
\* of the snapshot in order, then net.sh out for every net-out in order,
\* then the memory limit, and that only when the snapshot has one. A Restore
\* that succeeds has run all of them; one that fails returns the error of
\* the step that failed, has run the steps up to it and none after it, and
\* keeps what was applied: the snapshot's state and events and the net-in
\* rules replayed before the failure.
C29_RestoreReplayOrder ==
  [][\A s \in ContainerSnapshots :
       LinuxContainerRestore(s) =>
         LET ran == last'.cmds
             n == Len(ran)
         IN  /\ n >= 1 /\ n <= Len(ExpectedReplay(s))
             /\ ran = SubSeq(ExpectedReplay(s), 1, n)
             /\ last'.err = "" => n = Len(ExpectedReplay(s))
             /\ last'.err # "" =>
                  /\ last'.err = ran[n].path \o " failed"
                  /\ lc'.phase = "dead"
                  /\ n <= 1 + Len(s.netIns) =>
                       lc'.netIns = SubSeq(s.netIns, 1, n - 2)
             /\ lc'.state = s.state /\ lc'.events = s.events
             /\ s.memLimit = None =>
                  ~HasCmd(ran, "bin/oom") /\ ~HasCmd(ran, "memory.limit_in_bytes")
    ]_vars

\* a Restore has failed at the second net-in of a snapshot with two net-ins
\* and two net-outs: three commands were run and the first rule is kept
C29_Witness ==
  /\ last.op = "Restore" /\ last.err = "net.sh failed"
  /\ Len(last.cmds) = 3
  /\ Len(lc.netIns) = 1
  /\ lc.state = "active"

\* C30: LimitMemory starts the OOM notifier when none runs, then writes the
\* requested value to memory.limit_in_bytes, memory.memsw.limit_in_bytes and
\* memory.limit_in_bytes again. A notifier that does not start fails the call
\* before anything is written; a failure of the first write or of the memsw
\* write does not end or fail the call; a failure of the last write is
\* returned. No other outcome exists.
C30_LimitMemoryWrites ==
  [][\A limit \in {1, 2} :
       LinuxContainerLimitMemory(limit) =>
         LET start == IF lc.oom = "none"
                      THEN <<Cmd("bin/oom", "", 0, 0)>> ELSE <<>>
             writes == << Cmd("memory.limit_in_bytes", "", limit, 0),
                          Cmd("memory.memsw.limit_in_bytes", "", limit, 0),
                          Cmd("memory.limit_in_bytes", "", limit, 0) >>
         IN  \/ /\ last'.err = ""
                /\ last'.cmds = start \o writes
                /\ lc'.memLimit = limit
                /\ lc'.oom # "none"
             \/ /\ last'.err = "bin/oom failed"
                /\ lc.oom = "none" /\ lc'.oom = "none"
                /\ last'.cmds = start
                /\ lc'.memLimit = lc.memLimit
             \/ /\ last'.err = "memory.limit_in_bytes failed"
                /\ last'.cmds = start \o writes
                /\ lc'.memLimit = lc.memLimit
                /\ fails' = fails + 1]_vars

\* the first LimitMemory of a container has failed at its last write: the
\* notifier was started, all three writes were made, no limit is kept
C30_Witness ==
  /\ last.op = "LimitMemory" /\ last.err = "memory.limit_in_bytes failed"
  /\ Len(last.cmds) = 4
  /\ lc.oom = "running"
  /\ lc.memLimit = None

(* ------------------- properties of the Backend registry ---------------- *)

\* C36: a registered container stays registered under its handle until a
\* Destroy of that handle succeeds: the only step that removes or replaces
\* an existing registry entry is the last step of a Backend.Destroy of that
\* handle, and it removes the entry.
C36_EntryStaysUntilDestroyed ==
  [][\A h \in Handles :
       (containers[h] # NoID /\ containers'[h] # containers[h]) =>
         /\ containers'[h] = NoID
         /\ \E t \in Threads :
              /\ Step(t, "d_unregister", "done")
              /\ loc[t].handle = h
    ]_vars

\* C37: a failure of Container.Start inside Backend.Create, or of
\* Container.Restore inside ContainerPool.Restore, is returned without
\* compensation: the failing step registers nothing, runs no destroy.sh (the
\* depot is as it was) and puts nothing back, so the pools are what the
\* acquisitions or Removes left, and no handle resolves to the container.
C37_NoCompensation ==
  [][/\ \A t \in Threads :
          Step(t, "c_start", "done") =>
            /\ loc'[t].err = "start.sh failed"
            /\ loc'[t].ret = NoID
            /\ UNCHANGED <<uidFree, netFree, portFree, depot, containers>>
            /\ loc[t].cid \in depot'
            /\ \A h \in Handles : containers'[h] # loc[t].cid
     /\ (boot.pc = "restore" /\ boot'.pc = "failed"
           /\ boot'.err = "restore failed") =>
          LET s == CHOOSE x \in snapshots : x.id = Head(boot.todo)
          IN /\ UNCHANGED <<depot, containers>>
             /\ uidFree' = uidFree \ {s.uid} /\ s.uid \in uidFree
             /\ netFree' = netFree \ {s.net} /\ s.net \in netFree
             /\ portFree' = portFree \ SeqToSet(s.ports)
             /\ SeqToSet(s.ports) \subseteq portFree
             /\ \A h \in Handles : containers'[h] # s.id
    ]_vars

\* Backend.Start has failed in Container.Restore of a snapshot that holds a
\* port: its UID, Network and port are out of the free sets and no handle
\* resolves to it
C37_Witness ==
  /\ boot.pc = "failed"
  /\ boot.err = "restore failed"
  /\ \E s \in snapshots :
       /\ s.ports # <<>>
       /\ s.uid \notin uidFree
       /\ s.net \notin netFree
       /\ SeqToSet(s.ports) \cap portFree = {}
       /\ \A h \in Handles : containers[h] # s.id

(* ----------------------- properties of the pools ----------------------- *)

\* no value occurs twice in seq
NoDuplicates(seq) ==
  \A i, j \in 1..Len(seq) : seq[i] = seq[j] => i = j

\* C33: for each pool, Acquire returns a value of the pool that is none of
\* those it returned before and that were not released since, and fails
\* with PoolExhausted exactly when no value is free; Release(v) of a value
\* of the pool leaves v free (the next Acquire can return it), and for any
\* other value, or a value that is free already, changes nothing and
\* reports nothing; Remove(v) takes a free v out, fails with NotInPool for
\* a value the pool never had and with AlreadyAllocated for one that is
\* out already, changing nothing.
C33_PoolOperations ==
  [][\A k \in PoolNames :
       /\ PoolCallAcquire(k) =>
            /\ (last'.err = "PoolExhausted") <=> (FreeOf(k) = {})
            /\ last'.err \in {"", "PoolExhausted"}
            /\ last'.err = "PoolExhausted" => UNCHANGED pools
            /\ last'.err = "" =>
                 /\ last'.ret \in FreeOf(k)
                 /\ \A i \in 1..Len(last.held[k]) : last.held[k][i] # last'.ret
                 /\ NoDuplicates(last'.held[k])
                 /\ FreeOf(k)' = FreeOf(k) \ {last'.ret}
       /\ \A v \in ArgsOf(k) :
            /\ PoolCallRelease(k, v) =>
                 /\ last'.err = ""
                 /\ v \in RangeOf(k) =>
                      /\ FreeOf(k)' = FreeOf(k) \cup {v}
                      /\ PoolAcquire(FreeOf(k)') # None
                 /\ (v \notin RangeOf(k) \/ v \in FreeOf(k)) => UNCHANGED pools
            /\ PoolCallRemove(k, v) =>
                 /\ v \notin RangeOf(k) =>
                      last'.err = "NotInPool" /\ UNCHANGED pools
                 /\ (v \in RangeOf(k) /\ v \notin FreeOf(k)) =>
                      last'.err = "AlreadyAllocated" /\ UNCHANGED pools
                 /\ v \in FreeOf(k) =>
                      /\ last'.err = ""
                      /\ FreeOf(k)' = FreeOf(k) \ {v}
                      /\ \A j \in PoolNames \ {k} : FreeOf(j)' = FreeOf(j)
    ]_vars

\* the UIDPool was exhausted by Acquires, one UID was released and the next
\* Acquire returned it again; a Release of a value the pool never had came
\* later and changed nothing
C33_Witness ==
  /\ last.op = "Release"
  /\ last.pool = "port"
  /\ last.arg \notin PoolRange
  /\ uidFree = {}
  /\ Len(last.held["uid"]) = NumUIDs
  /\ last.held["uid"][NumUIDs] < last.held["uid"][1]
  /\ netFree = {}
  /\ last.held["net"] = <<>>

(* -------------------- properties of the container ids ------------------ *)

\* the value of the digit ch of base 32
DigitValue(ch) == CHOOSE d \in 0..31 : Base32Digits[d + 1] = ch

\* the number that bits lo..hi of n spell (at most 30 bits)
RECURSIVE BitsValue(_, _, _)
BitsValue(n, lo, hi) ==
  IF hi < lo THEN 0 ELSE n[lo] + 2 * BitsValue(n, lo + 1, hi)

\* the number that the digits from..to of id spell in base 32
RECURSIVE ParseBase32(_, _, _)
ParseBase32(id, from, to) ==
  IF to < from THEN 0
  ELSE DigitValue(id[to]) + 32 * ParseBase32(id, from, to - 1)

\* C34: every id is a string of 11 base-32 digits, the i-th of which (from
\* 0) spells bits 54-5i..50-5i of the counter, so that the id spells the
\* counter's low 55 bits; every draw adds one to the counter; and the ids
\* drawn by the Creates on one pool are pairwise different, each held by
\* the one Create that drew it.
C34_UniqueContainerIDs ==
  [][\A t \in Threads :
       PoolCreateDrawID(t) =>
         LET id == loc'[t].cid
         IN /\ Len(id) = 11
            /\ \A i \in 0..10 :
                 /\ id[i + 1] \in SeqToSet(Base32Digits)
                 /\ DigitValue(id[i + 1]) =
                      BitsValue(nextID, 50 - 5 * i, 54 - 5 * i)
            /\ ParseBase32(id, 6, 11) = BitsValue(nextID, 0, 29)
            /\ ParseBase32(id, 1, 5) = BitsValue(nextID, 30, 54)
            /\ BitsValue(nextID', 0, 29) =
                 (BitsValue(nextID, 0, 29) + 1) % (2 ^ 30)
            /\ BitsValue(nextID', 30, 59) =
                 (BitsValue(nextID, 30, 59)
                    + (IF BitsValue(nextID, 0, 29) = 2 ^ 30 - 1 THEN 1 ELSE 0))
                   % (2 ^ 30)
            /\ NoDuplicates(last'.ids)
            /\ last'.ids[Len(last'.ids)] = id
            /\ \A u \in Threads \ {t} :
                 pc'[u] = "c_create" => loc'[u].cid # id
    ]_vars

\* MaxDraws ids have been drawn, the first with its last digit at v and the
\* second with a carry into the digit before; two Creates hold ids
C34_Witness ==
  /\ Len(last.ids) = MaxDraws
  /\ last.ids[1][11] = "v"
  /\ last.ids[2][11] = "0"
  /\ last.ids[2][10] = "1"
  /\ \A t \in Threads : pc[t] = "c_create"

(* ---------------- properties of ContainerPool.Restore ------------------ *)

\* C35: a ContainerPool.Restore that fails while it takes the snapshot's
\* resources out of the pools releases only what it took out itself: the
\* free sets are afterwards what they were before it, and no UID, Network
\* or port of a registered container is in a free set.
C35_RestoreReleasesOwnOnly ==
  [][(/\ boot.pc = "restore"
      /\ boot'.pc = "failed"
      /\ boot'.err \notin {"decode failed", "restore failed"}) =>
       /\ UNCHANGED pools
       /\ \A i \in IDs :
            Registered(i)' =>
              /\ objs'[i].uid \notin uidFree'
              /\ objs'[i].net \notin netFree'
              /\ SeqToSet(objs'[i].ports) \cap portFree' = {}
    ]_vars

(* ------------------- properties of Backend.Stop ------------------------ *)

\* Backend.Stop is running
Stopping ==
  boot.pc \in {"stop_cleanup", "stop_save", "stop_write", "stop_rename"}

\* the place of call in the calls Stop has made, 0 if it has not made it
Place(log, call) ==
  IF \E k \in 1..Len(log) : log[k] = call
  THEN CHOOSE k \in 1..Len(log) : log[k] = call
  ELSE 0

\* C32: snapshot persistence is crash-consistent.  A file comes into the
\* snapshots directory only by the rename of a temporary file, outside the
\* directory, into which the snapshot was written completely; so at every
\* point, also when the process is killed in the middle of Stop or a write
\* fails, every file in the snapshots directory is a complete snapshot, and
\* the Start that follows never fails to decode one.
C32_SnapshotsCrashConsistent ==
  [][/\ \A f \in snapshots' : f.decodes
     /\ \A f \in snapshots' \ snapshots :
          /\ boot.pc = "stop_rename"
          /\ f \in tmpdir
          /\ f \notin tmpdir'
          /\ f = ContainerSnapshot(Head(boot.todo), objs[Head(boot.todo)])
     /\ \A f \in tmpdir' \ tmpdir : f \notin snapshots'
     /\ boot'.err # "decode failed"
    ]_vars

\* the process was killed in Stop after the snapshot of one container had
\* been renamed into place and while that of another was only begun in
\* its temporary file
C32_Witness ==
  /\ boot.pc = "crashed"
  /\ \E f \in snapshots, g \in tmpdir :
       /\ f.id # g.id
       /\ f.decodes
       /\ ~ g.decodes
       /\ <<"saveSnapshot", f.id>> \in SeqToSet(boot.log)
       /\ <<"saveSnapshot", g.id>> \in SeqToSet(boot.log)

\* C39: Backend.Stop calls Cleanup and then saveSnapshot for every
\* registered container, the Cleanup of a container right before its
\* snapshot; a snapshot that fails is not reported and Stop goes on, so
\* that when Stop returns both calls have been made once for every
\* registered container; Stop changes neither the registry nor a pool, and
\* without a snapshots path it writes no file.
C39_StopSnapshotsEveryContainer ==
  [][(Stopping \/ Stopping') =>
       /\ UNCHANGED <<containers, uidFree, netFree, portFree, objs, depot>>
       /\ boot.path = "" => UNCHANGED <<snapshots, tmpdir>>
       /\ \A k \in 1..Len(boot'.log) :
            boot'.log[k][1] = "saveSnapshot" =>
              /\ k > 1
              /\ boot'.log[k - 1] = <<"Cleanup", boot'.log[k][2]>>
       /\ NoDuplicates(boot'.log)
       /\ \A k \in 1..Len(boot'.log) : Registered(boot'.log[k][2])
       /\ boot'.pc \in {"stopped", "crashed"} \/ Stopping'
       /\ boot'.pc = "stopped" =>
            \A i \in IDs :
              Registered(i) =>
                /\ Place(boot'.log, <<"Cleanup", i>>) > 0
                /\ Place(boot'.log, <<"saveSnapshot", i>>)
                     = Place(boot'.log, <<"Cleanup", i>>) + 1
    ]_vars

\* Stop has returned after the snapshot of the first of two registered
\* containers failed: no file was written for the first, the snapshot of
\* the second is in place, and the registry still holds both
C39_Witness ==
  /\ boot.pc = "stopped"
  /\ boot.run = 1
  /\ Len(boot.log) = 4
  /\ Registered(boot.log[2][2])
  /\ Registered(boot.log[4][2])
  /\ ~ \E f \in snapshots : f.id = boot.log[2][2]
  /\ \E f \in snapshots : f.id = boot.log[4][2] /\ f.decodes
  /\ fails > 0

\* container i was registered when the run before ended
RegisteredBefore(i) == \E h \in Handles : boot.before.containers[h] = i

\* C38: Backend.Stop with a snapshots path followed by the Start of a fresh
\* Backend over fresh pools, in which nothing fails, brings the registry
\* back: when that Start has ended, and Stop had saved a snapshot of every
\* registered container, Start has succeeded, the registry is what it was
\* before Stop, every container has the handle, UID, Network and port list
\* it had, exactly those resources are out of the fresh pools, and no depot
\* entry of those containers was pruned.
C38_StopStartRoundTrip ==
  (/\ boot.run = 2
   /\ boot.pc \in {"serving", "failed"}
   /\ boot.path # ""
   /\ boot.before.stopped
   /\ fails = boot.before.fails
   /\ \A i \in IDs : RegisteredBefore(i) => i \in boot.before.saved) =>
    LET was == boot.before.objs
        ids == {i \in IDs : RegisteredBefore(i)}
    IN /\ boot.pc = "serving"
       /\ containers = boot.before.containers
       /\ \A i \in ids :
            /\ objs[i].handle = was[i].handle
            /\ objs[i].uid = was[i].uid
            /\ objs[i].net = was[i].net
            /\ objs[i].ports = was[i].ports
            /\ i \in boot.before.depot => i \in depot
       /\ uidFree = UIDs \ {was[i].uid : i \in ids}
       /\ netFree = Nets \ {was[i].net : i \in ids}
       /\ portFree = Ports \ UNION {SeqToSet(was[i].ports) : i \in ids}

(* ------------------ properties of Backend.Containers ------------------- *)

\* the keys of a property map
KeysOf(props) == {kv[1] : kv \in props}

\* C31: Containers(filter) returns exactly the registered containers whose
\* properties hold every pair of the filter (all of them for the empty
\* filter); it returns no container that is not registered and none that
\* was destroyed (whose destroy.sh has run), and leaves the registry as
\* it is.
C31_ContainersFilter ==
  [][\A t \in Threads, filter \in Filters :
       BackendContainers(t, filter) =>
         /\ loc'[t].err = ""
         /\ loc'[t].ret =
              {i \in IDs : /\ \E h \in Handles : containers[h] = i
                           /\ KeysOf(filter) \subseteq KeysOf(objs[i].props)
                           /\ filter \subseteq objs[i].props}
         /\ filter = {} =>
              loc'[t].ret = {containers[h] : h \in Handles} \ {NoID}
         /\ \A i \in loc'[t].ret : Registered(i) /\ i \in depot
         /\ UNCHANGED containers
    ]_vars

====
